---- MODULE Spec2Model ----
(***************************************************************************)
(* Barcelona/Catalan space compliance checker                              *)
(* (src/tools/checker_barcelona_compliance.py), IFC parse check and report *)
(* renderer (src/tools/checker_ifc_parser.py), and the retry wrapper of    *)
(* src/gemini_tool_example.py.                                             *)
(*                                                                         *)
(* Conventions of the model                                                *)
(*   - A Python value is a tagged record: None, Float(v), Str(s),          *)
(*     Wrapped(w) (an ifcopenshell entity exposing wrappedValue), Obj (any *)
(*     other object).                                                      *)
(*   - A float is an integer count of thousandths (2.6 is 2600), so the    *)
(*     comparisons against the thresholds and the "%.3f" formatting are    *)
(*     exact.  Negative numbers, NaN and infinities are outside the model. *)
(*   - Free text coming from the IFC file (names) is a sequence of         *)
(*     one-character strings, so that strip/lower/NFKD and substring tests *)
(*     are computed character by character.  A character outside ASCII is  *)
(*     written by its code point ("U+00E9").                               *)
(*   - Text produced by the program (labels, reasons, comments) is a TLA+  *)
(*     string.                                                             *)
(***************************************************************************)
EXTENDS Integers, Sequences, FiniteSets, TLC

(***************************************************************************)
(* Bounds of the model.                                                    *)
(***************************************************************************)
\* longest list of spaces returned by model.by_type("IfcSpace")
MaxSpaces == 3
\* most words in a generated space name
MaxWords == 2
\* most relations in a generated IsDefinedBy list
MaxDefs == 2

(***************************************************************************)
(* Python values.                                                          *)
(***************************************************************************)
None == [t |-> "None"]
Float(v) == [t |-> "float", v |-> v]
Str(s) == [t |-> "str", s |-> s]
Wrapped(w) == [t |-> "wrapped", w |-> w]
Obj == [t |-> "object"]
\* an exception escaping a call
Raised(e) == [t |-> "raised", exc |-> e]
\* a str the program itself builds (a label of SPACE_KEYWORDS), as a TLA+ string
Label(l) == [t |-> "label", l |-> l]

IsNone(x) == x.t = "None"
IsRaised(x) == x.t = "raised"

\* Python truthiness of the values above ("if not x", "x or y")
Truthy(x) ==
    CASE x.t = "None" -> FALSE
      [] x.t = "float" -> x.v # 0
      [] x.t = "str" -> x.s # << >>
      [] x.t = "label" -> x.l # ""
      [] OTHER -> TRUE

(***************************************************************************)
(* Characters: str.strip, str.lower, unicodedata.normalize("NFKD", .) and  *)
(* unicodedata.combining, tabulated for the characters the model uses.     *)
(***************************************************************************)
UpperLetters ==
    <<"A", "B", "C", "D", "E", "F", "G", "H", "I", "J", "K", "L", "M",
      "N", "O", "P", "Q", "R", "S", "T", "U", "V", "W", "X", "Y", "Z">>
LowerLetters ==
    <<"a", "b", "c", "d", "e", "f", "g", "h", "i", "j", "k", "l", "m",
      "n", "o", "p", "q", "r", "s", "t", "u", "v", "w", "x", "y", "z">>

\* str.isspace of one character: what str.strip() removes at both ends
\* (U+00A0 NO-BREAK SPACE is white space for Python)
IsSpace(c) == c \in {" ", "\t", "\n", "U+00A0"}

\* str.lower of one character (a sequence: U+0130 lowers to two characters)
LowerChar(c) ==
    IF \E k \in 1..26 : UpperLetters[k] = c
    THEN <<LowerLetters[CHOOSE k \in 1..26 : UpperLetters[k] = c]>>
    ELSE CASE c = "U+00C9" -> <<"U+00E9">>
           [] c = "U+00D3" -> <<"U+00F3">>
           [] c = "U+0130" -> <<"i", "U+0307">>
           [] OTHER -> <<c>>

\* NFKD decomposition of one character
NFKDChar(c) ==
    CASE c = "U+00E9" -> <<"e", "U+0301">>
      [] c = "U+00C9" -> <<"E", "U+0301">>
      [] c = "U+00F3" -> <<"o", "U+0301">>
      [] c = "U+00D3" -> <<"O", "U+0301">>
      [] c = "U+0130" -> <<"I", "U+0307">>
      [] c = "U+00A0" -> <<" ">>
      [] c = "U+00A8" -> <<" ", "U+0308">>
      [] c = "U+00B4" -> <<" ", "U+0301">>
      [] c = "U+2120" -> <<"S", "M">>
      [] c = "U+FB01" -> <<"f", "i">>
      [] OTHER -> <<c>>

\* unicodedata.combining(c) # 0
Combining(c) == c \in {"U+0301", "U+0307", "U+0308"}

RECURSIVE LStrip(_)
LStrip(s) ==
    IF s # << >> /\ IsSpace(Head(s)) THEN LStrip(Tail(s)) ELSE s

RECURSIVE RStrip(_)
RStrip(s) ==
    IF s # << >> /\ IsSpace(s[Len(s)])
    THEN RStrip(SubSeq(s, 1, Len(s) - 1))
    ELSE s

\* str.strip()
Strip(s) == RStrip(LStrip(s))

RECURSIVE Lower(_)
\* str.lower()
Lower(s) ==
    IF s = << >> THEN << >> ELSE LowerChar(Head(s)) \o Lower(Tail(s))

RECURSIVE NFKD(_)
\* unicodedata.normalize("NFKD", text); the order of combining marks, which
\* the normal form also fixes, plays no part once they are dropped
NFKD(s) ==
    IF s = << >> THEN << >> ELSE NFKDChar(Head(s)) \o NFKD(Tail(s))

\* "".join(ch for ch in text if not unicodedata.combining(ch))
DropCombining(s) == SelectSeq(s, LAMBDA c : ~Combining(c))

\* str(value) of a model value that is text
PyStr(value) == value.s

\* _norm_text: None gives "", else strip, lower, NFKD, drop combining marks
_norm_text(value) ==
    IF IsNone(value)
    THEN << >>
    ELSE DropCombining(NFKD(Lower(Strip(PyStr(value)))))

\* Python's "needle in haystack" for str
Contains(haystack, needle) ==
    \E k \in 1..(Len(haystack) - Len(needle) + 1) :
        SubSeq(haystack, k, k + Len(needle) - 1) = needle

(***************************************************************************)
(* Module constants of the checker.                                        *)
(***************************************************************************)
\* SPACE_RULES: thresholds in thousandths (2.6 m is 2600, 16.0 m2 is 16000)
SPACE_RULES ==
    [space_type \in {"Living Room", "Bedroom", "Kitchen", "Bathroom", "Corridor"} |->
        CASE space_type = "Living Room" -> [min_height |-> 2600, min_area |-> 16000]
          [] space_type = "Bedroom" -> [min_height |-> 2600, min_area |-> 9000]
          [] space_type = "Kitchen" -> [min_height |-> 2600, min_area |-> 8000]
          [] space_type = "Bathroom" -> [min_height |-> 2300, min_area |-> 4000]
          [] space_type = "Corridor" -> [min_height |-> 2300, min_area |-> 1500]]

\* SPACE_KEYWORDS, a dict: its items in insertion order
SPACE_KEYWORDS ==
    << [space_type |-> "Living Room",
        keywords |-> << <<"l", "i", "v", "i", "n", "g">>,
                        <<"l", "o", "u", "n", "g", "e">>,
                        <<"s", "a", "l", "a">>,
                        <<"s", "a", "l", "o", "n">>,
                        <<"e", "s", "t", "a", "r">>,
                        <<"m", "e", "n", "j", "a", "d", "o", "r">> >>],
       [space_type |-> "Bedroom",
        keywords |-> << <<"b", "e", "d", "r", "o", "o", "m">>,
                        <<"b", "e", "d">>,
                        <<"d", "o", "r", "m">>,
                        <<"h", "a", "b", "i", "t", "a", "c", "i", "o">>,
                        <<"h", "a", "b", "i", "t", "a", "c", "i", "o">>,
                        <<"d", "o", "r", "m", "i", "t", "o", "r", "i">> >>],
       [space_type |-> "Kitchen",
        keywords |-> << <<"k", "i", "t", "c", "h", "e", "n">>,
                        <<"c", "u", "i", "n", "a">>,
                        <<"c", "o", "c", "i", "n", "a">> >>],
       [space_type |-> "Bathroom",
        keywords |-> << <<"b", "a", "t", "h">>,
                        <<"b", "a", "t", "h", "r", "o", "o", "m">>,
                        <<"t", "o", "i", "l", "e", "t">>,
                        <<"w", "c">>,
                        <<"l", "a", "v", "a", "b", "o">>,
                        <<"a", "s", "e", "o">>,
                        <<"b", "a", "n", "y">> >>],
       [space_type |-> "Corridor",
        keywords |-> << <<"c", "o", "r", "r", "i", "d", "o", "r">>,
                        <<"h", "a", "l", "l">>,
                        <<"p", "a", "s", "i", "l", "l", "o">>,
                        <<"p", "a", "s", "s", "a", "g", "e">>,
                        <<"r", "e", "b", "e", "d", "o", "r">>,
                        <<"d", "i", "s", "t", "r", "i", "b">> >>] >>

QTO_AREA_NAMES ==
    { <<"n", "e", "t", "f", "l", "o", "o", "r", "a", "r", "e", "a">>,
      <<"g", "r", "o", "s", "s", "f", "l", "o", "o", "r", "a", "r", "e", "a">>,
      <<"f", "l", "o", "o", "r", "a", "r", "e", "a">> }

QTO_HEIGHT_NAMES ==
    { <<"h", "e", "i", "g", "h", "t">>,
      <<"c", "l", "e", "a", "r", "h", "e", "i", "g", "h", "t">>,
      <<"n", "e", "t", "h", "e", "i", "g", "h", "t">> }

(***************************************************************************)
(* _to_float and the builtin float() it relies on.                         *)
(***************************************************************************)
Digits == <<"0", "1", "2", "3", "4", "5", "6", "7", "8", "9">>
IsDigit(c) == \E k \in 1..10 : Digits[k] = c
DigitValue(c) == (CHOOSE k \in 1..10 : Digits[k] = c) - 1

RECURSIVE DigitsValue(_)
\* int of a sequence of digits ("" gives 0)
DigitsValue(s) ==
    IF s = << >> THEN 0
    ELSE 10 * DigitsValue(SubSeq(s, 1, Len(s) - 1)) + DigitValue(s[Len(s)])

AllDigits(s) == \A k \in 1..Len(s) : IsDigit(s[k])

\* 10^(3 - n) for n in 0..3
Scale(n) == CASE n = 0 -> 1000 [] n = 1 -> 100 [] n = 2 -> 10 [] OTHER -> 1

\* float(str): white space around the literal is ignored; the literals of the
\* model are unsigned decimals with at most three decimals, anything else is
\* text float() rejects with ValueError
FloatOfStr(s) ==
    LET body == Strip(s)
        dots == {k \in 1..Len(body) : body[k] = "."}
    IN  IF body # << >> /\ dots = {} /\ AllDigits(body)
        THEN Float(1000 * DigitsValue(body))
        ELSE IF Cardinality(dots) = 1
             THEN LET d == CHOOSE k \in dots : TRUE
                      whole == SubSeq(body, 1, d - 1)
                      frac == SubSeq(body, d + 1, Len(body))
                  IN  IF /\ AllDigits(whole) /\ AllDigits(frac)
                         /\ Len(whole) + Len(frac) > 0 /\ Len(frac) <= 3
                      THEN Float(1000 * DigitsValue(whole)
                                 + Scale(Len(frac)) * DigitsValue(frac))
                      ELSE Raised("ValueError")
             ELSE Raised("ValueError")

\* the builtin float(value)
PyFloat(value) ==
    CASE value.t = "float" -> value
      [] value.t = "str" -> FloatOfStr(value.s)
      [] OTHER -> Raised("TypeError")

\* getattr(obj, name, default) of an entity or value record
GetAttr(obj, name, default) ==
    IF name \in DOMAIN obj THEN obj[name] ELSE default

\* getattr(value, "wrappedValue", None)
WrappedValue(value) ==
    IF value.t = "wrapped" THEN value.w ELSE None

\* _to_float: None, or the float of the value or of its wrappedValue
_to_float(value) ==
    IF IsNone(value)
    THEN None
    ELSE IF ~IsRaised(PyFloat(value))
         THEN PyFloat(value)
         ELSE LET wrapped == WrappedValue(value)
              IN  IF ~IsNone(wrapped)
                  THEN IF ~IsRaised(PyFloat(wrapped))
                       THEN PyFloat(wrapped)
                       ELSE None
                  ELSE None

(***************************************************************************)
(* IFC entities: records with t = "entity", the IFC class in is_a and the  *)
(* attributes of the class as fields.                                      *)
(***************************************************************************)
\* entity.is_a(ifc_class), for the classes used here (none is a subtype of
\* another)
IsA(entity, ifc_class) == entity.is_a = ifc_class

\* " ".join(parts)
RECURSIVE JoinText(_, _)
JoinText(parts, sep) ==
    IF parts = << >> THEN << >>
    ELSE IF Len(parts) = 1 THEN parts[1]
    ELSE parts[1] \o sep \o JoinText(Tail(parts), sep)

\* the haystack of _get_space_type
Haystack(space) ==
    JoinText(<< _norm_text(GetAttr(space, "Name", None)),
                _norm_text(GetAttr(space, "LongName", None)),
                _norm_text(GetAttr(space, "ObjectType", None)) >>, <<" ">>)

\* whether some keyword of the k-th item of SPACE_KEYWORDS is in the haystack
KeywordHit(haystack, k) ==
    \E j \in 1..Len(SPACE_KEYWORDS[k].keywords) :
        Contains(haystack, SPACE_KEYWORDS[k].keywords[j])

RECURSIVE ScanTypesLast(_, _)
\* the loop without its early return: the last item with a keyword in the
\* haystack wins
ScanTypesLast(haystack, k) ==
    IF k > Len(SPACE_KEYWORDS) THEN None
    ELSE LET later == ScanTypesLast(haystack, k + 1)
         IN  IF ~IsNone(later) THEN later
             ELSE IF KeywordHit(haystack, k) THEN Label(SPACE_KEYWORDS[k].space_type)
             ELSE None

RECURSIVE ScanTypes(_, _)
\* the loop over SPACE_KEYWORDS.items() from item k on
ScanTypes(haystack, k) ==
    IF k > Len(SPACE_KEYWORDS) THEN None
    ELSE IF KeywordHit(haystack, k) THEN Label(SPACE_KEYWORDS[k].space_type)
    ELSE ScanTypes(haystack, k + 1)

\* _get_space_type: Label(label) of the first item with a keyword in the
\* haystack, or None
_get_space_type(space) == ScanTypes(Haystack(space), 1)

(***************************************************************************)
(* Property definitions linked to a space and the two extractors.          *)
(***************************************************************************)
RECURSIVE Concat(_)
\* the concatenation of a sequence of sequences
Concat(ss) == IF ss = << >> THEN << >> ELSE Head(ss) \o Concat(Tail(ss))

\* _iter_property_defs: the RelatingPropertyDefinition of every
\* IfcRelDefinesByProperties of space.IsDefinedBy, in order
_iter_property_defs(space) ==
    LET rels == SelectSeq(GetAttr(space, "IsDefinedBy", << >>),
                          LAMBDA rel : /\ Truthy(rel)
                                       /\ IsA(rel, "IfcRelDefinesByProperties")
                                       /\ Truthy(GetAttr(rel, "RelatingPropertyDefinition", None)))
    IN  [k \in 1..Len(rels) |-> rels[k].RelatingPropertyDefinition]

\* the quantities the first loop visits, in order: those of every
\* IfcElementQuantity among the property definitions
VisitedQuantities(space) ==
    LET defs == SelectSeq(_iter_property_defs(space),
                          LAMBDA prop_def : IsA(prop_def, "IfcElementQuantity"))
    IN  Concat([k \in 1..Len(defs) |-> GetAttr(defs[k], "Quantities", << >>)])

\* the properties the second loop visits, in order: those of every
\* IfcPropertySet among the property definitions
VisitedProperties(space) ==
    LET defs == SelectSeq(_iter_property_defs(space),
                          LAMBDA prop_def : IsA(prop_def, "IfcPropertySet"))
    IN  Concat([k \in 1..Len(defs) |-> GetAttr(defs[k], "HasProperties", << >>)])

\* the test of the first loop on one quantity: of the kind, with a name of
\* the canonical set
QuantityMatches(q, kind, names) ==
    /\ Truthy(q)
    /\ IsA(q, kind)
    /\ _norm_text(GetAttr(q, "Name", None)) \in names

\* step 1 of an extractor: at the first quantity that matches, return
\* _to_float of its value whatever that is; NoMatch when the loops end
NoMatch == [t |-> "no match"]
QuantityStep(space, kind, names, attr) ==
    LET hits == SelectSeq(VisitedQuantities(space),
                          LAMBDA q : QuantityMatches(q, kind, names))
    IN  IF hits = << >>
        THEN NoMatch
        ELSE _to_float(GetAttr(hits[1], attr, None))

\* step 2 of an extractor: the first property whose normalized name contains
\* the keyword and whose NominalValue _to_float accepts; None when the loops end
PropertyStep(space, keyword) ==
    LET hits == SelectSeq(VisitedProperties(space),
                          LAMBDA prop :
                              /\ Contains(_norm_text(GetAttr(prop, "Name", None)), keyword)
                              /\ ~IsNone(_to_float(GetAttr(prop, "NominalValue", None))))
    IN  IF hits = << >>
        THEN None
        ELSE _to_float(GetAttr(hits[1], "NominalValue", None))

_extract_area_m2(space) ==
    LET step1 == QuantityStep(space, "IfcQuantityArea", QTO_AREA_NAMES, "AreaValue")
    IN  IF step1 # NoMatch
        THEN step1
        ELSE PropertyStep(space, <<"a", "r", "e", "a">>)

_extract_height_m(space) ==
    LET step1 == QuantityStep(space, "IfcQuantityLength", QTO_HEIGHT_NAMES, "LengthValue")
    IN  IF step1 # NoMatch
        THEN step1
        ELSE PropertyStep(space, <<"h", "e", "i", "g", "h", "t">>)

(***************************************************************************)
(* Formatting.                                                             *)
(***************************************************************************)
\* n written with at least w digits
ZeroPad(n, w) ==
    IF w >= 3 /\ n < 10 THEN "00" \o ToString(n)
    ELSE IF (w >= 3 /\ n < 100) \/ (w = 2 /\ n < 10) THEN "0" \o ToString(n)
    ELSE ToString(n)

\* f"{value:.3f}" of a float held in thousandths
Fixed3(v) == ToString(v \div 1000) \o "." \o ZeroPad(v % 1000, 3)

\* f"{value:.2f}" of a float held in hundredths
Fixed2(h) == ToString(h \div 100) \o "." \o ZeroPad(h % 100, 2)

\* _format_decimal(value) with digits = 3
_format_decimal(value) ==
    IF IsNone(value) THEN "None" ELSE Fixed3(value.v)

RECURSIVE JoinStr(_, _)
\* sep.join(parts) of program strings
JoinStr(parts, sep) ==
    IF parts = << >> THEN ""
    ELSE IF Len(parts) = 1 THEN parts[1]
    ELSE parts[1] \o sep \o JoinStr(Tail(parts), sep)

\* _result(...): the record; the keyword-only arguments in their order
_result(element_id, element_type, element_name, element_name_long, check_status, actual_value, required_value, comment, log) ==
    [element_id |-> element_id,
     element_type |-> element_type,
     element_name |-> element_name,
     element_name_long |-> element_name_long,
     check_status |-> check_status,
     actual_value |-> actual_value,
     required_value |-> required_value,
     comment |-> comment,
     log |-> log]

(***************************************************************************)
(* check_barcelona_space_compliance: the body of the loop over the spaces. *)
(***************************************************************************)
RECURSIVE DigitsOf(_)
\* str(n) of a natural number, as text
DigitsOf(n) ==
    IF n < 10 THEN <<Digits[n + 1]>>
    ELSE DigitsOf(n \div 10) \o <<Digits[(n % 10) + 1]>>

\* name = getattr(space, "Name", None) or f"IfcSpace #{space.id()}"
SpaceName(space) ==
    IF Truthy(GetAttr(space, "Name", None))
    THEN GetAttr(space, "Name", None)
    ELSE Str(<<"I", "f", "c", "S", "p", "a", "c", "e", " ", "#">> \o DigitsOf(space.id))

\* SPACE_RULES.get(space_type) is a rule ("if not rule" is false)
HasRule(space_type) == space_type.l \in DOMAIN SPACE_RULES

\* a threshold that falls back on the bedroom rule when no type was inferred
RequiredAreaDefaulted(space_type) ==
    IF Truthy(space_type) /\ HasRule(space_type)
    THEN Float(SPACE_RULES[space_type.l].min_area)
    ELSE IF ~Truthy(space_type) THEN Float(SPACE_RULES["Bedroom"].min_area)
    ELSE None

\* required_area after the type check: None unless a type was inferred and
\* has a rule
RequiredArea(space_type) ==
    IF Truthy(space_type) /\ HasRule(space_type)
    THEN Float(SPACE_RULES[space_type.l].min_area)
    ELSE None

RequiredHeight(space_type) ==
    IF Truthy(space_type) /\ HasRule(space_type)
    THEN Float(SPACE_RULES[space_type.l].min_height)
    ELSE None

\* the reasons appended by the type check
TypeReasons(space_type) ==
    IF ~Truthy(space_type)
    THEN <<"Could not infer space type">>
    ELSE IF ~HasRule(space_type)
         THEN <<"Unrecognized space type: " \o space_type.l>>
         ELSE << >>

\* the area check with <= in place of <: an area equal to its threshold fails
AreaReasonsInclusive(area, required_area) ==
    IF IsNone(area)
    THEN <<"Area not found.">>
    ELSE IF ~IsNone(required_area) /\ area.v <= required_area.v
         THEN <<"Area " \o Fixed3(area.v) \o " m2 < required "
                \o Fixed3(required_area.v) \o " m2.">>
         ELSE << >>

\* the reasons appended by the area check
AreaReasons(area, required_area) ==
    IF IsNone(area)
    THEN <<"Area not found.">>
    ELSE IF ~IsNone(required_area) /\ area.v < required_area.v
         THEN <<"Area " \o Fixed3(area.v) \o " m2 < required "
                \o Fixed3(required_area.v) \o " m2.">>
         ELSE << >>

\* the height check with "if not height" in place of "if height is None":
\* 0.0 counts as not found
HeightReasonsFalsy(height, required_height) ==
    IF ~Truthy(height)
    THEN <<"Height not found.">>
    ELSE IF ~IsNone(required_height) /\ height.v < required_height.v
         THEN <<"Height " \o Fixed3(height.v) \o " m < required "
                \o Fixed3(required_height.v) \o " m.">>
         ELSE << >>

\* the reasons appended by the height check
HeightReasons(height, required_height) ==
    IF IsNone(height)
    THEN <<"Height not found.">>
    ELSE IF ~IsNone(required_height) /\ height.v < required_height.v
         THEN <<"Height " \o Fixed3(height.v) \o " m < required "
                \o Fixed3(required_height.v) \o " m.">>
         ELSE << >>

\* the checks with the height check made before the area check
CheckReasonsHeightFirst(space_type, area, height) ==
    TypeReasons(space_type)
    \o HeightReasons(height, RequiredHeight(space_type))
    \o AreaReasons(area, RequiredArea(space_type))

\* the reasons list when is_pass is computed: type, then area, then height
CheckReasons(space_type, area, height) ==
    TypeReasons(space_type)
    \o AreaReasons(area, RequiredArea(space_type))
    \o HeightReasons(height, RequiredHeight(space_type))

\* is_pass = len(reasons) == 0
IsPass(reasons) == Len(reasons) = 0

\* the verdict without the replacement: the reasons list is left as it is
FinalReasonsKept(reasons) == reasons

\* the reasons list after the verdict: replaced by the canned message on pass
FinalReasons(reasons) ==
    IF IsPass(reasons)
    THEN <<"Meets minimum area and height requirements.">>
    ELSE reasons

\* comment = "; ".join(reasons)
Comment(reasons) == JoinStr(reasons, "; ")

\* structured_output, the dict json.dumps serialises into the log (None is
\* JSON null); the log is held as this structure
StructuredOutput(name, space_type, area, height, reasons) ==
    [space |-> name,
     space_type |-> space_type,
     measured |-> [area_m2 |-> area, height_m |-> height],
     required |-> [min_area_m2 |-> RequiredArea(space_type),
                   min_height_m |-> RequiredHeight(space_type)],
     status |-> IF IsPass(reasons) THEN "PASS" ELSE "FAIL",
     reasons |-> FinalReasons(reasons)]

\* the record the loop body appends for one space
SpaceRecord(space) ==
    LET name == SpaceName(space)
        long_name == GetAttr(space, "LongName", None)
        space_type == _get_space_type(space)
        area == _extract_area_m2(space)
        height == _extract_height_m(space)
        reasons == CheckReasons(space_type, area, height)
    IN  _result(GetAttr(space, "GlobalId", None),
                "IfcSpace",
                name,
                IF Truthy(long_name) THEN long_name ELSE None,
                IF IsPass(reasons) THEN "pass" ELSE "fail",
                "space_type=" \o (IF Truthy(space_type) THEN space_type.l ELSE "unknown")
                    \o ", area_m2=" \o _format_decimal(area)
                    \o ", height_m=" \o _format_decimal(height),
                "min_area_m2=" \o _format_decimal(RequiredArea(space_type))
                    \o ", min_height_m=" \o _format_decimal(RequiredHeight(space_type)),
                Comment(FinalReasons(reasons)),
                StructuredOutput(name, space_type, area, height, reasons))

(***************************************************************************)
(* The aggregate step.                                                     *)
(***************************************************************************)
\* the rate cut to two decimals instead of rounded
ComplianceRateTruncated(n_passed, total_checked) ==
    IF total_checked > 0
    THEN (10000 * n_passed) \div total_checked
    ELSE 0

\* compliance_rate rounded to two decimals, in hundredths of a percent:
\* round(passed / total_checked * 100.0, 2), 0.0 for no space.  The quotient
\* is rounded to the nearest hundredth; it lies half way between two
\* hundredths only when total_checked is a multiple of 32.
ComplianceRate(n_passed, total_checked) ==
    IF total_checked > 0
    THEN (2 * 10000 * n_passed + total_checked) \div (2 * total_checked)
    ELSE 0

\* the status with the test inverted
SummaryStatusInverted(n_failed) == IF n_failed = 0 THEN "fail" ELSE "pass"

\* check_status of the Summary record
SummaryStatus(n_failed) == IF n_failed = 0 THEN "pass" ELSE "fail"

\* comment of the Summary record
SummaryComment(total_checked) ==
    IF total_checked = 0
    THEN "No IfcSpace elements found"
    ELSE "Computed from provided Barcelona rules"

\* the Summary record
SummaryRecord(total_input, n_passed, n_failed, n_warnings) ==
    LET total_checked == total_input
        rate == ComplianceRate(n_passed, total_checked)
    IN  _result(None,
                "Summary",
                Label("Barcelona Space Compliance Summary"),
                None,
                SummaryStatus(n_failed),
                "checked=" \o ToString(total_checked)
                    \o ", passed=" \o ToString(n_passed)
                    \o ", failed=" \o ToString(n_failed)
                    \o ", warnings=" \o ToString(n_warnings)
                    \o ", rate=" \o Fixed2(rate) \o "%",
                "All checked spaces should meet minimum area and height by inferred space type",
                SummaryComment(total_checked),
                [total_spaces_input |-> total_input,
                 total_spaces_checked |-> total_checked,
                 passed_count |-> n_passed,
                 failed_count |-> n_failed,
                 warnings_count |-> n_warnings,
                 compliance_rate_percent |-> rate])

(***************************************************************************)
(* The inputs: IFC models as model.by_type("IfcSpace") returns them.       *)
(***************************************************************************)
IfcQuantityArea(name, value) ==
    [t |-> "entity", is_a |-> "IfcQuantityArea", Name |-> name, AreaValue |-> value]
IfcQuantityLength(name, value) ==
    [t |-> "entity", is_a |-> "IfcQuantityLength", Name |-> name, LengthValue |-> value]
IfcPropertySingleValue(name, value) ==
    [t |-> "entity", is_a |-> "IfcPropertySingleValue", Name |-> name, NominalValue |-> value]
IfcElementQuantity(quantities) ==
    [t |-> "entity", is_a |-> "IfcElementQuantity", Quantities |-> quantities]
IfcPropertySet(properties) ==
    [t |-> "entity", is_a |-> "IfcPropertySet", HasProperties |-> properties]
IfcRelDefinesByProperties(prop_def) ==
    [t |-> "entity", is_a |-> "IfcRelDefinesByProperties",
     RelatingPropertyDefinition |-> prop_def]
IfcRelDefinesByType ==
    [t |-> "entity", is_a |-> "IfcRelDefinesByType"]
IfcSpace(name, long_name, object_type, is_defined_by) ==
    [t |-> "entity", is_a |-> "IfcSpace", id |-> 1, GlobalId |-> Str(<<"G", "1">>),
     Name |-> name, LongName |-> long_name, ObjectType |-> object_type,
     IsDefinedBy |-> is_defined_by]

\* words of space names: the examples of the specification, words with
\* keywords of several types, upper case, an accent, and no keyword at all
Words ==
    { <<"M", "a", "s", "t", "e", "r">>, <<"B", "e", "d", "r", "o", "o", "m">>, <<"S", "a", "l", "a">>, <<"d", "'", "e", "s", "t", "a", "r">>, <<"S", "t", "o", "r", "a", "g", "e">>,
      <<"0", "1">>, <<"B", "a", "t", "h">>, <<"B", "e", "d">>, <<"H", "a", "b", "i", "t", "a", "c", "i", "U+00F3">>, <<"H", "A", "L", "L">>,
      <<"C", "u", "i", "n", "a">> }

RECURSIVE WordSeqs(_)
\* the names of 1..n words separated by one space
WordSeqs(n) ==
    IF n = 0 THEN {}
    ELSE Words \cup {w \o <<" ">> \o rest : w \in Words, rest \in WordSeqs(n - 1)}

NameSamples == {None, Str(<< >>)} \cup {Str(w) : w \in WordSeqs(MaxWords)}
LongNameSamples == {None, Str(<<"l", "a">>), Str(<<" ", "W", "C", "\t">>)}
ObjectTypeSamples == {None, Str(<<"r", "o", "o", "m">>)}

\* spaces that differ in their names and carry nothing else
ClassifySpaces ==
    {IfcSpace(n, l, o, << >>) :
        n \in NameSamples, l \in LongNameSamples, o \in ObjectTypeSamples}

\* relations a space may be linked by
RelSamples ==
    { IfcRelDefinesByProperties(IfcElementQuantity(
          <<IfcQuantityArea(Str(<<"N", "e", "t", "F", "l", "o", "o", "r", "A", "r", "e", "a">>), Float(18500))>>)),
      IfcRelDefinesByProperties(IfcPropertySet(
          <<IfcPropertySingleValue(Str(<<"A", "r", "e", "a", " ", "(", "g", "r", "o", "s", "s", ")">>), Wrapped(Float(99000)))>>)),
      IfcRelDefinesByProperties(IfcElementQuantity(
          <<IfcQuantityArea(Str(<<"G", "r", "o", "s", "s", "F", "l", "o", "o", "r", "A", "r", "e", "a">>), None),
            IfcQuantityArea(Str(<<"F", "l", "o", "o", "r", "A", "r", "e", "a">>), Float(3000))>>)),
      IfcRelDefinesByProperties(IfcPropertySet(
          <<IfcPropertySingleValue(Str(<<"S", "u", "r", "f", "a", "c", "e", " ", "A", "r", "e", "a">>), Wrapped(Str(<<"n", "/", "a">>))),
            IfcPropertySingleValue(Str(<<"A", "r", "e", "a">>), Float(4000))>>)),
      IfcRelDefinesByProperties(IfcElementQuantity(
          <<IfcQuantityLength(Str(<<"H", "e", "i", "g", "h", "t">>), Float(2500)),
            IfcQuantityArea(Str(<<"W", "a", "l", "l", "A", "r", "e", "a">>), Float(7000))>>)),
      IfcRelDefinesByProperties(IfcPropertySet(
          <<IfcPropertySingleValue(Str(<<"C", "e", "i", "l", "i", "n", "g", " ", "H", "e", "i", "g", "h", "t">>), Wrapped(Str(<<"2", ".", "3">>))),
            IfcPropertySingleValue(Str(<<"R", "e", "f", "e", "r", "e", "n", "c", "e">>), Wrapped(Str(<<"n", "/", "a">>)))>>)),
      IfcRelDefinesByProperties(IfcElementQuantity(
          <<None, IfcQuantityLength(Str(<<" ", "C", "l", "e", "a", "r", "H", "e", "i", "g", "h", "t", " ">>), None)>>)),
      IfcRelDefinesByProperties(IfcPropertySet(
          <<IfcPropertySingleValue(Str(<<"H", "e", "i", "g", "h", "t">>), Wrapped(Wrapped(Float(3000)))),
            IfcPropertySingleValue(None, Float(5000)),
            IfcPropertySingleValue(Str(<<"A", "r", "e", "a">>), Obj)>>)),
      IfcRelDefinesByProperties(IfcElementQuantity(
          <<IfcQuantityLength(Str(<<"N", "e", "t", "F", "l", "o", "o", "r", "A", "r", "e", "a">>), Float(5000)),
            IfcQuantityArea(Str(<<"H", "e", "i", "g", "h", "t">>), Float(6000))>>)),
      IfcRelDefinesByProperties(IfcElementQuantity(
          <<IfcQuantityArea(Str(<<"N", "e", "t", "F", "l", "o", "o", "r", "A", "r", "e", "a">>), None)>>)),
      IfcRelDefinesByProperties(None),
      IfcRelDefinesByType,
      None }

RECURSIVE SeqsUpTo(_, _)
\* the sequences of at most n elements of S
SeqsUpTo(S, n) ==
    IF n = 0 THEN {<< >>}
    ELSE {<< >>} \cup {<<x>> \o rest : x \in S, rest \in SeqsUpTo(S, n - 1)}

\* spaces of one name that differ in what they are linked to
ExtractSpaces ==
    {IfcSpace(Str(<<"B", "a", "t", "h">>), None, None, rels) : rels \in SeqsUpTo(RelSamples, MaxDefs)}

\* a space of a given name with given measurements (None: not measured), the
\* area in a quantity set and the height in a property set
MeasuredSpace(name, area, height) ==
    IfcSpace(Str(name), None, None,
        (IF IsNone(area) THEN << >>
         ELSE <<IfcRelDefinesByProperties(IfcElementQuantity(
                    <<IfcQuantityArea(Str(<<"N", "e", "t", "F", "l", "o", "o", "r", "A", "r", "e", "a">>), area)>>))>>)
        \o
        (IF IsNone(height) THEN << >>
         ELSE <<IfcRelDefinesByProperties(IfcPropertySet(
                    <<IfcPropertySingleValue(Str(<<"H", "e", "i", "g", "h", "t">>), Wrapped(height))>>))>>))

AreaSamples ==
    {None, Float(0), Float(1499), Float(3000), Float(4000), Float(8999), Float(16000)}
HeightSamples ==
    {None, Float(0), Float(2299), Float(2300), Float(2500), Float(2600)}
TypedNames ==
    {<<"S", "a", "l", "a">>, <<"B", "e", "d", "r", "o", "o", "m">>, <<"C", "u", "i", "n", "a">>, <<"B", "a", "t", "h">>, <<"H", "A", "L", "L">>, <<"S", "t", "o", "r", "a", "g", "e">>}

\* spaces of every type with measurements around every threshold
MeasuredSpaces ==
    {MeasuredSpace(n, a, h) : n \in TypedNames, a \in AreaSamples, h \in HeightSamples}

\* the spaces of the models with several spaces
CoreSpaces ==
    { MeasuredSpace(<<"B", "a", "t", "h">>, Float(3000), Float(2500)),
      MeasuredSpace(<<"B", "a", "t", "h">>, Float(4000), Float(2300)),
      MeasuredSpace(<<"S", "t", "o", "r", "a", "g", "e">>, Float(16000), Float(2600)),
      MeasuredSpace(<<"S", "t", "o", "r", "a", "g", "e">>, None, None),
      MeasuredSpace(<<"B", "e", "d", "r", "o", "o", "m">>, Float(0), Float(2600)),
      MeasuredSpace(<<"C", "u", "i", "n", "a">>, Float(8999), Float(2600)) }

\* model.by_type gives entities of distinct id and GlobalId
Numbered(templates) ==
    [k \in 1..Len(templates) |->
        [templates[k] EXCEPT !.id = k, !.GlobalId = Str(<<"G">> \o DigitsOf(k))]]

\* the lists model.by_type("IfcSpace") may return
Models ==
    {Numbered(ts) : ts \in SeqsUpTo(CoreSpaces, MaxSpaces)}
    \cup {<<sp>> : sp \in ClassifySpaces \cup ExtractSpaces \cup MeasuredSpaces}

(***************************************************************************)
(* check_barcelona_space_compliance as a state machine: one step per loop  *)
(* iteration, one step for the summary.                                    *)
(***************************************************************************)
VARIABLES
    spaces,     \* model.by_type("IfcSpace")
    pc,         \* "loop": in the for loop; "done": returned
    pos,        \* how many spaces the loop has consumed
    results,    \* the list being built and returned
    passed,
    failed,
    warnings

complianceVars == <<spaces, pc, pos, results, passed, failed, warnings>>

\* the other entry points of the repository, each run on its own
VARIABLES
    text,               \* _norm_text: the value being normalized
    normed,             \* _norm_text: the successive results
    report_part,        \* renderer: "parse" or "compliance"
    report_rows,        \* renderer: the record sequence given to the section
    report_lines,       \* renderer: the lines of the section
    model,              \* check_ifc_parse: what model.by_type answers
    entity_type_list,   \* check_ifc_parse: the requested entity types
    sample_limit,       \* check_ifc_parse: max(1, int(sample_limit))
    parse_pc,           \* check_ifc_parse: "start", "loop", "done"
    parse_pos,          \* check_ifc_parse: how many types the loop has consumed
    parse_results,      \* check_ifc_parse: the list being built and returned
    total_count,        \* check_ifc_parse
    attempts,           \* _generate_with_retry: the attempts argument
    attempt,            \* _generate_with_retry: the loop variable
    delay_seconds,      \* _generate_with_retry
    calls,              \* _generate_with_retry: outcomes of generate_content so far
    slept,              \* _generate_with_retry: arguments of time.sleep so far
    retry_pc,           \* _generate_with_retry: "loop", "returned", "raised"
    retry_result        \* _generate_with_retry: what it returned or raised

normVars == <<text, normed>>
reportVars == <<report_part, report_rows, report_lines>>
parseVars ==
    <<model, entity_type_list, sample_limit, parse_pc, parse_pos, parse_results, total_count>>
retryVars == <<attempts, attempt, delay_seconds, calls, slept, retry_pc, retry_result>>

vars == <<complianceVars, normVars, reportVars, parseVars, retryVars>>

\* an entry point that is not being run
ComplianceIdle ==
    /\ spaces = << >>
    /\ pc = "idle"
    /\ pos = 0
    /\ results = << >>
    /\ passed = 0
    /\ failed = 0
    /\ warnings = 0

NormIdle == text = None /\ normed = << >>

ReportIdle == report_part = "idle" /\ report_rows = << >> /\ report_lines = << >>

ParseIdle ==
    /\ model = << >>
    /\ entity_type_list = << >>
    /\ sample_limit = 1
    /\ parse_pc = "idle"
    /\ parse_pos = 0
    /\ parse_results = << >>
    /\ total_count = 0

RetryIdle ==
    /\ attempts = 0
    /\ attempt = 0
    /\ delay_seconds = 0
    /\ calls = << >>
    /\ slept = << >>
    /\ retry_pc = "idle"
    /\ retry_result = None

\* lines 193-198: the spaces are fetched, the list and the counters are empty
Init ==
    /\ spaces \in Models
    /\ pc = "loop"
    /\ pos = 0
    /\ results = << >>
    /\ passed = 0
    /\ failed = 0
    /\ warnings = 0
    /\ NormIdle /\ ReportIdle /\ ParseIdle /\ RetryIdle

\* results.insert(0, record)
ListPrepend(list, record) == <<record>> \o list

\* results.append(record)
ListAppend(list, record) == Append(list, record)

\* one iteration of "for space in spaces"
CheckSpace ==
    /\ pc = "loop"
    /\ pos < Len(spaces)
    /\ LET record == SpaceRecord(spaces[pos + 1])
       IN  /\ passed' = IF record.check_status = "pass" THEN passed + 1 ELSE passed
           /\ failed' = IF record.check_status = "pass" THEN failed ELSE failed + 1
           /\ results' = ListAppend(results, record)
    /\ pos' = pos + 1
    /\ UNCHANGED <<spaces, pc, warnings, normVars, reportVars, parseVars, retryVars>>

\* after the loop: the Summary record is appended and the list returned
Summarize ==
    /\ pc = "loop"
    /\ pos = Len(spaces)
    /\ results' = ListAppend(results, SummaryRecord(Len(spaces), passed, failed, warnings))
    /\ pc' = "done"
    /\ UNCHANGED <<spaces, pos, passed, failed, warnings>>
    /\ UNCHANGED <<normVars, reportVars, parseVars, retryVars>>

Next == CheckSpace \/ Summarize

Spec == Init /\ [][Next]_vars

(***************************************************************************)
(* What the claims below read.                                             *)
(***************************************************************************)
\* the elements of a sequence
Range(seq) == {seq[k] : k \in 1..Len(seq)}

\* the per-space records appended so far: results[k] is the record of spaces[k]
Checked == 1..pos

\* the variables of the loop body as the log of a record holds them
TypeOf(r) == r.log.space_type
AreaOf(r) == r.log.measured.area_m2
HeightOf(r) == r.log.measured.height_m

\* a type was inferred and SPACE_RULES has a rule for it
Ruled(r) == ~IsNone(TypeOf(r)) /\ TypeOf(r).l \in DOMAIN SPACE_RULES

\* C1: a space's record has status "pass" exactly when a type was inferred
\* and has a rule, the area is present and at least min_area, and the height
\* is present and at least min_height; otherwise its status is "fail".
C1_PassIffEveryCheckHolds ==
    \A k \in Checked :
        LET r == results[k]
            meets == /\ Ruled(r)
                     /\ ~IsNone(AreaOf(r))
                     /\ AreaOf(r).v >= SPACE_RULES[TypeOf(r).l].min_area
                     /\ ~IsNone(HeightOf(r))
                     /\ HeightOf(r).v >= SPACE_RULES[TypeOf(r).l].min_height
        IN  r.check_status = IF meets THEN "pass" ELSE "fail"

\* a space whose area and height both equal their thresholds has passed
C1_Witness ==
    \E k \in Checked :
        /\ Ruled(results[k])
        /\ AreaOf(results[k]) = Float(SPACE_RULES[TypeOf(results[k]).l].min_area)
        /\ HeightOf(results[k]) = Float(SPACE_RULES[TypeOf(results[k]).l].min_height)
        /\ results[k].check_status = "pass"

\* the numeric values of the quantities of a space that are of the kind and
\* carry a canonical name
QuantityValues(space, kind, names, attr) ==
    {_to_float(GetAttr(q, attr, None)) :
        q \in {x \in Range(VisitedQuantities(space)) :
                  /\ QuantityMatches(x, kind, names)
                  /\ ~IsNone(_to_float(GetAttr(x, attr, None)))}}

AreaQuantityValues(space) ==
    QuantityValues(space, "IfcQuantityArea", QTO_AREA_NAMES, "AreaValue")
HeightQuantityValues(space) ==
    QuantityValues(space, "IfcQuantityLength", QTO_HEIGHT_NAMES, "LengthValue")

\* the relations of the example of the specification
RelNetFloorArea18_5 ==
    IfcRelDefinesByProperties(IfcElementQuantity(
        <<IfcQuantityArea(Str(<<"N", "e", "t", "F", "l", "o", "o", "r", "A", "r", "e", "a">>),
                          Float(18500))>>))
RelAreaGross99 ==
    IfcRelDefinesByProperties(IfcPropertySet(
        <<IfcPropertySingleValue(Str(<<"A", "r", "e", "a", " ", "(", "g", "r", "o", "s", "s", ")">>),
                                 Wrapped(Float(99000)))>>))

\* C2: a space that has a quantity of the matching kind with a canonical
\* name and a numeric value gets the value of such a quantity as its area
\* (height), whatever property sets it is also linked to and in whatever
\* order; NetFloorArea = 18.5 with the property "Area (gross)" = 99.0 gives
\* 18.5 in either order, the property alone gives 99.0.
C2_QuantityPrecedence ==
    \A k \in Checked :
        LET space == spaces[k]
            r == results[k]
        IN  /\ AreaQuantityValues(space) # {} => AreaOf(r) \in AreaQuantityValues(space)
            /\ HeightQuantityValues(space) # {} => HeightOf(r) \in HeightQuantityValues(space)
            /\ space.IsDefinedBy \in {<<RelNetFloorArea18_5, RelAreaGross99>>,
                                      <<RelAreaGross99, RelNetFloorArea18_5>>}
                   => AreaOf(r) = Float(18500)
            /\ space.IsDefinedBy = <<RelAreaGross99>> => AreaOf(r) = Float(99000)

\* the value of the first property, in the order of traversal, whose
\* normalized name contains the keyword and whose nominal value coerces;
\* None when there is none
FirstCoerced(space, keyword) ==
    LET props == VisitedProperties(space)
        good == {j \in 1..Len(props) :
                    /\ Contains(_norm_text(GetAttr(props[j], "Name", None)), keyword)
                    /\ ~IsNone(_to_float(GetAttr(props[j], "NominalValue", None)))}
    IN  IF good = {}
        THEN None
        ELSE _to_float(GetAttr(props[CHOOSE j \in good : \A i \in good : j <= i],
                               "NominalValue", None))

\* C3: when the quantities of a space yield no numeric value (none
\* matches, or those that match have a missing or uncoercible value), the
\* area (height) is the first coerced value among the properties whose
\* normalized name contains "area" ("height"), and None only when no such
\* property coerces.
C3_FallbackSkipsFailedCoercions ==
    \A k \in Checked :
        LET space == spaces[k]
            r == results[k]
        IN  /\ AreaQuantityValues(space) = {}
                   => AreaOf(r) = FirstCoerced(space, <<"a", "r", "e", "a">>)
            /\ HeightQuantityValues(space) = {}
                   => HeightOf(r) = FirstCoerced(space, <<"h", "e", "i", "g", "h", "t">>)

\* the reason each check gives when it fails, from what the log of a record
\* holds; no reason when it does not fail
TypeReasonOf(r) ==
    IF IsNone(TypeOf(r)) THEN <<"Could not infer space type">>
    ELSE IF ~Ruled(r) THEN <<"Unrecognized space type: " \o TypeOf(r).l>>
    ELSE << >>

AreaReasonOf(r) ==
    IF IsNone(AreaOf(r)) THEN <<"Area not found.">>
    ELSE IF Ruled(r) /\ AreaOf(r).v < SPACE_RULES[TypeOf(r).l].min_area
         THEN <<"Area " \o Fixed3(AreaOf(r).v) \o " m2 < required "
                \o Fixed3(SPACE_RULES[TypeOf(r).l].min_area) \o " m2.">>
         ELSE << >>

HeightReasonOf(r) ==
    IF IsNone(HeightOf(r)) THEN <<"Height not found.">>
    ELSE IF Ruled(r) /\ HeightOf(r).v < SPACE_RULES[TypeOf(r).l].min_height
         THEN <<"Height " \o Fixed3(HeightOf(r).v) \o " m < required "
                \o Fixed3(SPACE_RULES[TypeOf(r).l].min_height) \o " m.">>
         ELSE << >>

\* C4: the comment of a failing space is its reasons joined with "; " in
\* the order type, area, height, a reason being there only for a check that
\* failed; a Bathroom of area 3.0 and height 2.5 fails with the comment
\* "Area 3.000 m2 < required 4.000 m2." and no height reason.
C4_CommentJoinsReasonsInOrder ==
    \A k \in Checked :
        LET r == results[k]
        IN  /\ r.check_status = "fail" =>
                   r.comment = JoinStr(TypeReasonOf(r) \o AreaReasonOf(r) \o HeightReasonOf(r), "; ")
            /\ (/\ TypeOf(r) = Label("Bathroom")
                /\ AreaOf(r) = Float(3000)
                /\ HeightOf(r) = Float(2500)) =>
                   /\ r.check_status = "fail"
                   /\ r.comment = "Area 3.000 m2 < required 4.000 m2."

\* the Bathroom of the example has been checked, and so has a space that
\* fails every check
C4_Witness ==
    /\ \E k \in Checked :
           /\ TypeOf(results[k]) = Label("Bathroom")
           /\ AreaOf(results[k]) = Float(3000)
           /\ HeightOf(results[k]) = Float(2500)
    /\ \E k \in Checked :
           results[k].comment = "Could not infer space type; Area not found.; Height not found."

\* C5: "Area not found." ("Height not found.") is among the reasons of a
\* record exactly when the extracted area (height) is absent; 0.0 is
\* compared against the threshold like any other number; an absent value
\* shows as None in actual_value and as null in the log, never as 0.
C5_AbsentIsNotZero ==
    \A k \in Checked :
        LET r == results[k]
        IN  /\ "Area not found." \in Range(r.log.reasons) <=> IsNone(AreaOf(r))
            /\ "Height not found." \in Range(r.log.reasons) <=> IsNone(HeightOf(r))
            /\ (AreaOf(r) = Float(0) /\ Ruled(r)) =>
                   ("Area 0.000 m2 < required " \o Fixed3(SPACE_RULES[TypeOf(r).l].min_area) \o " m2.")
                       \in Range(r.log.reasons)
            /\ (HeightOf(r) = Float(0) /\ Ruled(r)) =>
                   ("Height 0.000 m < required " \o Fixed3(SPACE_RULES[TypeOf(r).l].min_height) \o " m.")
                       \in Range(r.log.reasons)
            /\ r.actual_value =
                   "space_type=" \o (IF IsNone(TypeOf(r)) THEN "unknown" ELSE TypeOf(r).l)
                   \o ", area_m2=" \o (IF IsNone(AreaOf(r)) THEN "None" ELSE Fixed3(AreaOf(r).v))
                   \o ", height_m=" \o (IF IsNone(HeightOf(r)) THEN "None" ELSE Fixed3(HeightOf(r).v))
            /\ IsNone(AreaOf(r)) <=> IsNone(_extract_area_m2(spaces[k]))
            /\ IsNone(HeightOf(r)) <=> IsNone(_extract_height_m(spaces[k]))

\* a space measured 0.0 in area and not measured in height has been checked
C5_Witness ==
    \E k \in Checked :
        /\ AreaOf(results[k]) = Float(0)
        /\ IsNone(HeightOf(results[k]))
        /\ Ruled(results[k])
        /\ results[k].actual_value = "space_type=Bathroom, area_m2=0.000, height_m=None"

\* what holds of the list once the function has returned
ReturnedShape ==
    pc = "done" =>
        /\ Len(results) = Len(spaces) + 1
        /\ \A k \in 1..Len(spaces) :
               /\ results[k].element_type = "IfcSpace"
               /\ results[k].element_id = spaces[k].GlobalId
        /\ results[Len(results)].element_type = "Summary"

\* C6: for n spaces the function returns n + 1 records, the first n of
\* element_type "IfcSpace", one per space in input order, the last the only
\* "Summary"; a record once appended is never modified.
C6_OneRecordPerSpaceThenSummary ==
    /\ [](ReturnedShape /\ (pc = "loop" => Len(results) = pos))
    /\ [][/\ Len(results') >= Len(results)
          /\ \A k \in 1..Len(results) : results'[k] = results[k]]_vars

\* the function has returned for a model of several spaces
C6_Witness ==
    /\ pc = "done"
    /\ Len(spaces) >= 2
    /\ Len(results) = Len(spaces) + 1

\* C7: the Summary record has status "fail" exactly when some per-space
\* record of the run has status "fail", and "pass" otherwise, the empty
\* model included.
C7_SummaryFailsIffSomeSpaceFails ==
    pc = "done" =>
        LET summary == results[Len(results)]
            some_failed == \E k \in 1..Len(spaces) : results[k].check_status = "fail"
        IN  summary.check_status = IF some_failed THEN "fail" ELSE "pass"

\* a run in which one space passed and another failed has returned
C7_Witness ==
    /\ pc = "done"
    /\ \E k \in 1..Len(spaces) : results[k].check_status = "fail"
    /\ \E k \in 1..Len(spaces) : results[k].check_status = "pass"
    /\ results[Len(results)].check_status = "fail"

\* the counts and the comment of the Summary record
SummaryCounts ==
    pc = "done" =>
        LET payload == results[Len(results)].log
        IN  /\ payload.passed_count + payload.failed_count = payload.total_spaces_checked
            /\ payload.total_spaces_checked = Len(spaces)
            /\ payload.passed_count =
                   Cardinality({k \in 1..Len(spaces) : results[k].check_status = "pass"})
            /\ Len(spaces) = 0 =>
                   /\ payload.compliance_rate_percent = 0
                   /\ results[Len(results)].comment = "No IfcSpace elements found"
            /\ Len(spaces) > 0 =>
                   results[Len(results)].comment = "Computed from provided Barcelona rules"

\* C8 as stated: the counts add up to the number of spaces, and
\* compliance_rate_percent is passed_count / total_spaces_checked * 100
\* (here in hundredths of a percent: rate * total = passed * 10000), 0.0
\* with the comment "No IfcSpace elements found" for the empty model.
C8_RateIsExactQuotient ==
    /\ SummaryCounts
    /\ (pc = "done" /\ Len(spaces) > 0) =>
           LET payload == results[Len(results)].log
           IN  payload.compliance_rate_percent * payload.total_spaces_checked
                   = payload.passed_count * 10000

\* C8 amended: as above, compliance_rate_percent being the quotient rounded
\* to two decimals: the hundredth nearest to passed / total * 100.
C8_RateIsRoundedQuotient ==
    /\ SummaryCounts
    /\ (pc = "done" /\ Len(spaces) > 0) =>
           LET payload == results[Len(results)].log
               err == payload.compliance_rate_percent * payload.total_spaces_checked
                          - payload.passed_count * 10000
           IN  /\ 2 * err <= payload.total_spaces_checked
               /\ -2 * err <= payload.total_spaces_checked

\* two spaces of three have passed: the rate is 66.67
C8_Witness ==
    /\ pc = "done"
    /\ Len(spaces) = 3
    /\ results[Len(results)].log.passed_count = 2
    /\ results[Len(results)].log.compliance_rate_percent = 6667

\* C9: a passing space has the comment "Meets minimum area and height
\* requirements.", that one message as the reasons of its log and the log
\* status "PASS"; a failing space has the reasons of its log joined into
\* its comment, none of them the canned message, and the log status "FAIL".
C9_PassReplacesReasons ==
    \A k \in Checked :
        LET r == results[k]
        IN  /\ r.check_status = "pass" =>
                   /\ r.comment = "Meets minimum area and height requirements."
                   /\ r.log.reasons = <<"Meets minimum area and height requirements.">>
                   /\ r.log.status = "PASS"
            /\ r.check_status = "fail" =>
                   /\ r.comment = JoinStr(r.log.reasons, "; ")
                   /\ r.log.reasons # << >>
                   /\ "Meets minimum area and height requirements." \notin Range(r.log.reasons)
                   /\ r.log.status = "FAIL"
            /\ r.check_status \in {"pass", "fail"}

\* a passing and a failing space have been checked in one run
C9_Witness ==
    /\ \E k \in Checked : results[k].check_status = "pass" /\ results[k].log.status = "PASS"
    /\ \E k \in Checked : results[k].check_status = "fail" /\ Len(results[k].log.reasons) >= 2

\* the room types in the order of the classifier
TypeOrder == <<"Living Room", "Bedroom", "Kitchen", "Bathroom", "Corridor">>

\* the keywords SPACE_KEYWORDS lists for a room type
KeywordsOf(space_type) ==
    UNION {Range(SPACE_KEYWORDS[k].keywords) :
              k \in {j \in 1..Len(SPACE_KEYWORDS) : SPACE_KEYWORDS[j].space_type = space_type}}

\* the text of the three name fields, normalized and joined by one space
JoinedNames(space) ==
    _norm_text(space.Name) \o <<" ">> \o _norm_text(space.LongName)
        \o <<" ">> \o _norm_text(space.ObjectType)

\* a space of the given name and nothing else
Named(space, name) ==
    /\ space.Name = Str(name)
    /\ IsNone(space.LongName)
    /\ IsNone(space.ObjectType)

\* C10: the inferred type is the first of Living Room, Bedroom, Kitchen,
\* Bathroom, Corridor with a keyword that is a substring of the joined
\* normalized names, and none only when no keyword matches: "Bed Bath" and
\* "Bath Bed" are Bedroom, "Master Bedroom" is Bedroom, "Sala d'estar" is
\* Living Room, "Storage 01" is unknown.
C10_FirstMatchingTypeWins ==
    \A k \in Checked :
        LET space == spaces[k]
            found == TypeOf(results[k])
            hits == {j \in 1..Len(TypeOrder) :
                        \E kw \in KeywordsOf(TypeOrder[j]) : Contains(JoinedNames(space), kw)}
        IN  /\ hits = {} <=> IsNone(found)
            /\ hits # {} => found = Label(TypeOrder[CHOOSE j \in hits : \A i \in hits : j <= i])
            /\ Named(space, <<"B", "e", "d", " ", "B", "a", "t", "h">>) => found = Label("Bedroom")
            /\ Named(space, <<"B", "a", "t", "h", " ", "B", "e", "d">>) => found = Label("Bedroom")
            /\ Named(space, <<"M", "a", "s", "t", "e", "r", " ", "B", "e", "d", "r", "o", "o", "m">>)
                   => found = Label("Bedroom")
            /\ Named(space, <<"S", "a", "l", "a", " ", "d", "'", "e", "s", "t", "a", "r">>)
                   => found = Label("Living Room")
            /\ Named(space, <<"S", "t", "o", "r", "a", "g", "e", " ", "0", "1">>)
                   => /\ IsNone(found)
                      /\ results[k].actual_value = "space_type=unknown, area_m2=None, height_m=None"

\* the space named "Bath Bed", whose first keyword in the text is of the
\* later type, has been classified
C10_Witness ==
    \E k \in Checked :
        /\ Named(spaces[k], <<"B", "a", "t", "h", " ", "B", "e", "d">>)
        /\ TypeOf(results[k]) = Label("Bedroom")

(***************************************************************************)
(* _norm_text on its own: the function is applied to a text, then to its   *)
(* own result.                                                             *)
(***************************************************************************)
\* longest text given to _norm_text
MaxText == 3

\* characters of the texts: letters of both cases, whitespace, a letter with
\* a diacritic, a combining mark, and compatibility characters
NormAlphabet == {"a", "B", " ", "U+00E9", "U+0301", "U+00A8", "U+2120"}

NormInputs == {None} \cup {Str(s) : s \in SeqsUpTo(NormAlphabet, MaxText)}

InitNorm ==
    /\ text \in NormInputs
    /\ normed = << >>
    /\ ComplianceIdle /\ ReportIdle /\ ParseIdle /\ RetryIdle

\* _norm_text(x)
NormFirst ==
    /\ normed = << >>
    /\ normed' = <<_norm_text(text)>>
    /\ UNCHANGED <<text, complianceVars, reportVars, parseVars, retryVars>>

\* _norm_text(_norm_text(x))
NormAgain ==
    /\ Len(normed) = 1
    /\ normed' = Append(normed, _norm_text(Str(normed[1])))
    /\ UNCHANGED <<text, complianceVars, reportVars, parseVars, retryVars>>

NextNorm == NormFirst \/ NormAgain

SpecNorm == InitNorm /\ [][NextNorm]_vars

\* s == s.lower()
IsLowercase(s) == Lower(s) = s

\* no character of s has a combining class
NoCombining(s) == \A k \in 1..Len(s) : ~Combining(s[k])

\* s == s.strip()
IsStripped(s) == Strip(s) = s

\* C11: every result of _norm_text is lowercase, free of combining marks and
\* free of leading and trailing whitespace, and normalizing a result again
\* gives the same result (None maps to the empty text).
C11_NormTextIdempotentAndClean ==
    /\ \A k \in 1..Len(normed) :
          /\ IsLowercase(normed[k])
          /\ NoCombining(normed[k])
          /\ IsStripped(normed[k])
    /\ (IsNone(text) /\ Len(normed) >= 1) => normed[1] = << >>
    /\ Len(normed) = 2 => normed[2] = normed[1]

(***************************************************************************)
(* The report renderer (src/tools/checker_ifc_parser.py).  A field of a    *)
(* result row is None or Label(text) with text a TLA+ string; a row that   *)
(* lacks a key is a record without that field.  A line of the report is a  *)
(* TLA+ string, built as the f-strings build it.                           *)
(***************************************************************************)
\* _to_text(value)
_to_text(value) == IF IsNone(value) THEN "" ELSE value.l

\* row.get(key)
RowGet(row, key) == GetAttr(row, key, None)

\* str.lower and str.upper, tabulated for the status texts of the model
StrLower(s) ==
    CASE s = "PASS" -> "pass"
      [] s = "Fail" -> "fail"
      [] OTHER -> s

StrUpper(s) ==
    CASE s \in {"pass", "PASS"} -> "PASS"
      [] s \in {"fail", "Fail"} -> "FAIL"
      [] s = "warning" -> "WARNING"
      [] s = "blocked" -> "BLOCKED"
      [] s = "log" -> "LOG"
      [] s = "unknown" -> "UNKNOWN"
      [] s = "error" -> "ERROR"
      [] s = "" -> ""

\* s * n
RECURSIVE Repeat(_, _)
Repeat(s, n) == IF n <= 0 THEN "" ELSE s \o Repeat(s, n - 1)

\* f"{s:<w}" and f"{s:>w}"
PadRight(s, w) == s \o Repeat(" ", w - Len(s))
PadLeft(s, w) == Repeat(" ", w - Len(s)) \o s

\* text[:n], tabulated for the texts of the model longer than their column
Prefix(t, n) ==
    CASE t = "Living room with open kitchen" /\ n = 23 -> "Living room with open k"
      [] t = "min_area_m2=16.000, min_height_m=2.600" /\ n = 23 -> "min_area_m2=16.000, min"
      [] t = "min_area_m2=None, min_height_m=None" /\ n = 23 -> "min_area_m2=None, min_h"

\* _clip(value, width), lines 199-203 and 307-311
_clip(value, width) ==
    LET t == _to_text(value)
    IN  IF Len(t) <= width THEN t ELSE Prefix(t, width - 3) \o "..."

\* name.endswith(" Count") and name[: -len(" Count")], tabulated
EndsWithCount(name) == name \in {"IfcWall Count", "IfcDoor Count"}
EntityOfCountName(name) ==
    CASE name = "IfcWall Count" -> "IfcWall"
      [] name = "IfcDoor Count" -> "IfcDoor"

\* the status a row is counted under
CountedStatus(row) ==
    LET status == StrLower(_to_text(RowGet(row, "check_status")))
    IN  IF status = "" THEN "unknown" ELSE status

\* the dict status_counts after the counting loop over rows
RECURSIVE StatusCounts(_)
StatusCounts(rows) ==
    IF rows = << >> THEN << >>
    ELSE LET before == StatusCounts(SubSeq(rows, 1, Len(rows) - 1))
             status == CountedStatus(rows[Len(rows)])
             got == IF status \in DOMAIN before THEN before[status] ELSE 0
         IN  [k \in DOMAIN before \cup {status} |->
                 IF k = status THEN got + 1 ELSE before[k]]

\* the fixed status lists of the two tables, lines 238 and 335
ParseStatusOrder == <<"pass", "warning", "fail", "blocked", "log", "unknown">>
ComplianceStatusOrder == <<"pass", "fail", "warning", "blocked", "log", "unknown">>

\* f"{status.upper():<12} {count:>8}"
StatusRow(status, count) ==
    PadRight(StrUpper(status), 12) \o " " \o PadLeft(ToString(count), 8)

\* a table that prints a row for every status of the list
StatusTableWithZeros(counts, order) ==
    [k \in 1..Len(order) |->
        StatusRow(order[k], IF order[k] \in DOMAIN counts THEN counts[order[k]] ELSE 0)]

\* the rows of a status table: a status of the list whose count is not None
StatusTable(counts, order) ==
    LET shown == SelectSeq(order, LAMBDA status : status \in DOMAIN counts)
    IN  [k \in 1..Len(shown) |-> StatusRow(shown[k], counts[shown[k]])]

Dashes == Repeat("-", 100)

\* value or default
OrElse(value, default) == IF Truthy(value) THEN value ELSE default

IsSummaryRow(row) == RowGet(row, "element_type") = Label("Summary")
IsSpaceRow(row) == RowGet(row, "element_type") = Label("IfcSpace")

\* lines 213-225 and 253-257: the entity count lines of the parse section
EntityCountLines(summary_rows) ==
    LET counted == SelectSeq(summary_rows,
                       LAMBDA row : EndsWithCount(_to_text(RowGet(row, "element_name"))))
        EntityLine(row) ==
            PadRight(_clip(Label(EntityOfCountName(_to_text(RowGet(row, "element_name")))), 30), 30)
            \o " " \o PadLeft(_to_text(RowGet(row, "actual_value")), 8)
            \o " " \o PadLeft(StrUpper(_to_text(RowGet(row, "check_status"))), 12)
    IN  IF counted # << >>
        THEN [k \in 1..Len(counted) |-> EntityLine(counted[k])]
        ELSE <<"No entity count rows were generated.">>

\* lines 269-279: the sampled element lines of the parse section
SampledLines(detail_rows) ==
    LET DetailLine(idx, row) ==
            PadLeft(ToString(idx), 3) \o " "
            \o PadRight(_clip(RowGet(row, "element_type"), 18), 18) \o " "
            \o PadRight(_clip(RowGet(row, "element_name"), 34), 34) \o " "
            \o PadRight(_clip(OrElse(RowGet(row, "element_id"), Label("-")), 24), 24) \o " "
            \o PadRight(_clip(RowGet(row, "check_status"), 17), 17)
    IN  IF detail_rows # << >>
        THEN [k \in 1..Len(detail_rows) |-> DetailLine(k, detail_rows[k])]
        ELSE <<"No element-level sample rows found.">>

\* the statuses the two sections flag, lines 284 and 365
FlaggedStatuses == {"warning", "fail", "blocked"}

\* a test that forgets the blocked rows
IsFlaggedUnlessBlocked(row) ==
    StrLower(_to_text(RowGet(row, "check_status"))) \in {"warning", "fail"}

IsFlagged(row) ==
    StrLower(_to_text(RowGet(row, "check_status"))) \in FlaggedStatuses

\* lines 281-285
noteworthy(rows) == SelectSeq(rows, IsFlagged)

\* lines 289-296: the lines of one flagged row of the parse section
NoteworthyLines(row) ==
    <<"- [" \o StrUpper(_to_text(RowGet(row, "check_status"))) \o "] "
      \o _to_text(RowGet(row, "element_type")) \o " | "
      \o _to_text(RowGet(row, "element_name"))>>
    \o (IF Truthy(RowGet(row, "comment"))
        THEN <<"  comment: " \o _to_text(RowGet(row, "comment"))>> ELSE << >>)
    \o (IF Truthy(RowGet(row, "log"))
        THEN <<"  log    : " \o _to_text(RowGet(row, "log"))>> ELSE << >>)

\* lines 287-298
ParseFlaggedLines(rows) ==
    LET flagged == noteworthy(rows)
    IN  IF flagged # << >>
        THEN Concat([k \in 1..Len(flagged) |-> NoteworthyLines(flagged[k])])
        ELSE <<"No warnings, failures, or blocked items.">>

ParseFlaggedHeading == "4) PARSE WARNINGS / FAILURES / BLOCKED"
ParseStatusHeading == "1) STATUS DISTRIBUTION"

\* _build_parse_section(results)
_build_parse_section(rows) ==
    LET summary_rows == SelectSeq(rows, IsSummaryRow)
        detail_rows == SelectSeq(rows, LAMBDA row : ~IsSummaryRow(row))
        status_counts == StatusCounts(rows)
    IN  <<"A) IFC PARSE SUMMARY",
          Dashes,
          "Total parse rows: " \o ToString(Len(rows))
              \o " (summary=" \o ToString(Len(summary_rows))
              \o ", details=" \o ToString(Len(detail_rows)) \o ")",
          "",
          ParseStatusHeading,
          Dashes,
          PadRight("Status", 12) \o " " \o PadLeft("Count", 8),
          Dashes>>
        \o StatusTable(status_counts, ParseStatusOrder)
        \o <<"",
             "2) ENTITY COUNTS",
             Dashes,
             PadRight("Entity Type", 30) \o " " \o PadLeft("Count", 8)
                 \o " " \o PadLeft("Status", 12),
             Dashes>>
        \o EntityCountLines(summary_rows)
        \o <<"",
             "3) SAMPLED ELEMENTS",
             Dashes,
             PadLeft("#", 3) \o " " \o PadRight("Type", 18) \o " " \o PadRight("Name", 34)
                 \o " " \o PadRight("GlobalId", 24) \o " " \o PadRight("Note", 17),
             Dashes>>
        \o SampledLines(detail_rows)
        \o <<"", ParseFlaggedHeading, Dashes>>
        \o ParseFlaggedLines(rows)
        \o <<"">>

\* lines 350-360: the space-by-space lines of the compliance section
SpaceLines(space_rows) ==
    LET SpaceLine(idx, row) ==
            PadLeft(ToString(idx), 3) \o " "
            \o PadRight(_clip(RowGet(row, "element_name"), 26), 26) \o " "
            \o PadRight(_clip(Label(StrUpper(_to_text(RowGet(row, "check_status")))), 8), 8) \o " "
            \o PadRight(_clip(RowGet(row, "actual_value"), 34), 34) \o " "
            \o PadRight(_clip(RowGet(row, "required_value"), 26), 26)
    IN  IF space_rows # << >>
        THEN [k \in 1..Len(space_rows) |-> SpaceLine(k, space_rows[k])]
        ELSE <<"No IfcSpace rows found.">>

\* lines 362-366
failed_or_warn(space_rows) == SelectSeq(space_rows, IsFlagged)

\* lines 370-374: the lines of one flagged row of the compliance section
FailedOrWarnLines(row) ==
    <<"- [" \o StrUpper(_to_text(RowGet(row, "check_status"))) \o "] "
      \o _to_text(RowGet(row, "element_name"))>>
    \o (IF Truthy(RowGet(row, "comment"))
        THEN <<"  reasons: " \o _to_text(RowGet(row, "comment"))>> ELSE << >>)

\* lines 368-376
ComplianceFlaggedLines(space_rows) ==
    LET flagged == failed_or_warn(space_rows)
    IN  IF flagged # << >>
        THEN Concat([k \in 1..Len(flagged) |-> FailedOrWarnLines(flagged[k])])
        ELSE <<"All checked spaces are compliant.">>

\* lines 379-385: the summary lines of the compliance section
SummaryLines(summary_rows) ==
    LET RowLines(row) ==
            <<"- " \o _to_text(RowGet(row, "element_name")) \o ": "
              \o _to_text(RowGet(row, "actual_value"))>>
            \o (IF Truthy(RowGet(row, "comment"))
                THEN <<"  comment: " \o _to_text(RowGet(row, "comment"))>> ELSE << >>)
    IN  IF summary_rows # << >>
        THEN Concat([k \in 1..Len(summary_rows) |-> RowLines(summary_rows[k])])
        ELSE <<"No summary rows produced.">>

ComplianceFlaggedHeading == "3) NON-COMPLIANT DETAILS"
ComplianceStatusHeading == "1) COMPLIANCE STATUS COUNTS"

\* _build_compliance_section(results)
_build_compliance_section(rows) ==
    LET summary_rows == SelectSeq(rows, IsSummaryRow)
        space_rows == SelectSeq(rows, IsSpaceRow)
        status_counts == StatusCounts(space_rows)
    IN  <<"B) BARCELONA SPACE COMPLIANCE",
          Dashes,
          "Total space checks: " \o ToString(Len(space_rows)),
          "",
          ComplianceStatusHeading,
          Dashes,
          PadRight("Status", 12) \o " " \o PadLeft("Count", 8),
          Dashes>>
        \o StatusTable(status_counts, ComplianceStatusOrder)
        \o <<"",
             "2) SPACE-BY-SPACE RESULTS",
             Dashes,
             PadLeft("#", 3) \o " " \o PadRight("Space", 26) \o " " \o PadRight("Status", 8)
                 \o " " \o PadRight("Measured", 34) \o " " \o PadRight("Required", 26),
             Dashes>>
        \o SpaceLines(space_rows)
        \o <<"", ComplianceFlaggedHeading, Dashes>>
        \o ComplianceFlaggedLines(space_rows)
        \o <<"", "4) COMPLIANCE SUMMARY ROWS", Dashes>>
        \o SummaryLines(summary_rows)
        \o <<"">>

\* _result(...) of checker_ifc_parser.py: the row; the keyword-only arguments in their order
ParserResult(element_id, element_type, element_name, element_name_long, check_status, actual_value, required_value, comment, log) ==
    [element_id |-> element_id,
     element_type |-> element_type,
     element_name |-> element_name,
     element_name_long |-> element_name_long,
     check_status |-> check_status,
     actual_value |-> actual_value,
     required_value |-> required_value,
     comment |-> comment,
     log |-> log]

\* a row without one of its keys
WithoutKey(row, key) == [f \in DOMAIN row \ {key} |-> row[f]]

(***************************************************************************)
(* The record sequences given to the renderer: rows as check_ifc_parse and *)
(* check_barcelona_space_compliance emit them, and rows whose status is    *)
(* empty, missing, unlisted or not lowercase.                              *)
(***************************************************************************)
\* longest record sequence given to a section
MaxRows == 2

ParseRowSamples ==
    {ParserResult(None, Label("Summary"), Label("Model Schema"), None, Label("log"),
                  Label("IFC4"), Label("Readable IFC schema"),
                  Label("Parsed model schema successfully"), None),
     ParserResult(None, Label("Summary"), Label("IfcWall Count"), None, Label("pass"),
                  Label("2"), Label(">= 1 recommended"), None, None),
     ParserResult(None, Label("Summary"), Label("IfcDoor Count"), None, Label("warning"),
                  Label("0"), Label(">= 1 recommended"),
                  Label("No IfcDoor elements found"), None),
     ParserResult(None, Label("Summary"), Label("IfcFoo Parse"), None, Label("blocked"),
                  Label("0"), Label("Parsable entity type"),
                  Label("Could not parse IfcFoo"), Label("Entity IfcFoo not found")),
     ParserResult(Label("2O2Fr$t4X7Zf8NOew3FLOH"), Label("IfcWall"), Label("Wall-1"), None,
                  Label("log"), Label("Parsed IfcWall (express_id=12)"),
                  Label("Parsable IFC entity"), None, None)}

ComplianceRowSamples ==
    {ParserResult(Label("0BTBFw6f90Nfh9rP1dlXr1"), Label("IfcSpace"), Label("Bedroom 1"), None,
                  Label("pass"), Label("area_m2=12.000, height_m=2.600"),
                  Label("min_area_m2=16.000, min_height_m=2.600"), Label(""),
                  Label("{\"status\": \"pass\"}")),
     ParserResult(Label("0BTBFw6f90Nfh9rP1dlXr2"), Label("IfcSpace"),
                  Label("Living room with open kitchen"), None,
                  Label("fail"), Label("area_m2=3.000, height_m=2.600"),
                  Label("min_area_m2=16.000, min_height_m=2.600"),
                  Label("Area 3.000 m2 below required 16.000 m2"),
                  Label("{\"status\": \"fail\"}")),
     ParserResult(None, Label("Summary"), Label("Barcelona Space Compliance Summary"), None,
                  Label("fail"), Label("passed=1, failed=1, warnings=0, compliance_rate=50.00%"),
                  Label("All checked spaces should meet minimum area and height by inferred space type"),
                  Label("Computed from IfcSpace elements"),
                  Label("{\"failed_count\": 1}"))}

OddRowSamples ==
    {WithoutKey(ParserResult(None, Label("IfcSpace"), Label("Hall"), None, None,
                             Label("area_m2=None, height_m=None"),
                             Label("min_area_m2=None, min_height_m=None"),
                             Label("Could not infer space type"), None),
                "check_status"),
     ParserResult(None, Label("IfcWall"), Label("Wall-2"), None, Label(""),
                  Label("Parsed IfcWall (express_id=13)"), Label("Parsable IFC entity"),
                  None, None),
     ParserResult(None, Label("IfcSpace"), Label("Store"), None, Label("error"),
                  Label("area_m2=None, height_m=None"),
                  Label("min_area_m2=None, min_height_m=None"),
                  Label("Area not found."), Label("{\"status\": \"error\"}")),
     ParserResult(None, Label("IfcSpace"), Label("Bath"), None, Label("Fail"),
                  Label("area_m2=3.000, height_m=2.600"),
                  Label("min_area_m2=16.000, min_height_m=2.600"),
                  Label("Height not found."), None)}

RowSamples == ParseRowSamples \cup ComplianceRowSamples \cup OddRowSamples

InitReport ==
    /\ report_part \in {"parse", "compliance"}
    /\ report_rows \in SeqsUpTo(RowSamples, MaxRows)
    /\ report_lines = << >>
    /\ ComplianceIdle /\ NormIdle /\ ParseIdle /\ RetryIdle

\* lines = _build_parse_section(results)
BuildParseSection ==
    /\ report_part = "parse"
    /\ report_lines = << >>
    /\ report_lines' = _build_parse_section(report_rows)
    /\ UNCHANGED <<report_part, report_rows, complianceVars, normVars, parseVars, retryVars>>

\* lines = _build_compliance_section(results)
BuildComplianceSection ==
    /\ report_part = "compliance"
    /\ report_lines = << >>
    /\ report_lines' = _build_compliance_section(report_rows)
    /\ UNCHANGED <<report_part, report_rows, complianceVars, normVars, parseVars, retryVars>>

NextReport == BuildParseSection \/ BuildComplianceSection

SpecReport == InitReport /\ [][NextReport]_vars

(***************************************************************************)
(* What the claims about the report read: the lines of a section of the    *)
(* rendered text, found by its heading.                                    *)
(***************************************************************************)
Rendered == report_lines # << >>

\* the lines between the heading (and the skip lines under it) and the next
\* empty line
SectionBody(lines, heading, skip) ==
    LET h == CHOOSE k \in 1..Len(lines) : lines[k] = heading
        start == h + skip + 1
        stop == CHOOSE k \in start..Len(lines) :
                    /\ lines[k] = ""
                    /\ \A j \in start..(k - 1) : lines[j] # ""
    IN  SubSeq(lines, start, stop - 1)

FlaggedSection ==
    IF report_part = "parse"
    THEN SectionBody(report_lines, ParseFlaggedHeading, 1)
    ELSE SectionBody(report_lines, ComplianceFlaggedHeading, 1)

StatusSection ==
    IF report_part = "parse"
    THEN SectionBody(report_lines, ParseStatusHeading, 3)
    ELSE SectionBody(report_lines, ComplianceStatusHeading, 3)

NothingFlaggedLine ==
    IF report_part = "parse"
    THEN "No warnings, failures, or blocked items."
    ELSE "All checked spaces are compliant."

\* the status of a row, lowercased; "" when empty or missing
LoweredStatus(row) == StrLower(_to_text(RowGet(row, "check_status")))

\* the line of a row's log payload
LogLine(row) ==
    IF Truthy(RowGet(row, "log"))
    THEN <<"  log    : " \o _to_text(RowGet(row, "log"))>> ELSE << >>

\* the lines expected of the entries of the rows picked: nothing picked gives
\* the one placeholder line
ExpectedFlagged(entries) ==
    IF entries = << >> THEN <<NothingFlaggedLine>> ELSE Concat(entries)

\* C12 as stated: the flagged-items section of each part lists every record
\* of the sequence whose status is neither "pass" nor "log" (an empty,
\* missing or unlisted status and failing Summary records included), in
\* input order, each followed by its comment and its log payload when present.
C12_EveryNonPassRecordFlagged ==
    Rendered =>
        LET picked == SelectSeq(report_rows,
                          LAMBDA row : LoweredStatus(row) \notin {"pass", "log"})
            Entry(row) ==
                IF report_part = "parse" THEN NoteworthyLines(row)
                ELSE FailedOrWarnLines(row) \o LogLine(row)
        IN  FlaggedSection = ExpectedFlagged([k \in 1..Len(picked) |-> Entry(picked[k])])

\* C12: the flagged-items section of the parse part lists every record of
\* the sequence whose lowercased status is "warning", "fail" or "blocked",
\* each followed by its comment and its log payload when non-empty; that of
\* the compliance part lists every IfcSpace record with such a status, each
\* followed by its comment only; both in input order.
C12_FlaggedAreWarningFailBlocked ==
    Rendered =>
        LET Listed(row) ==
                /\ \E status \in {"warning", "fail", "blocked"} : LoweredStatus(row) = status
                /\ report_part = "compliance" =>
                       RowGet(row, "element_type") = Label("IfcSpace")
            picked == SelectSeq(report_rows, Listed)
            Entry(row) ==
                IF report_part = "parse" THEN NoteworthyLines(row)
                ELSE FailedOrWarnLines(row)
        IN  FlaggedSection = ExpectedFlagged([k \in 1..Len(picked) |-> Entry(picked[k])])

\* the compliance section was built from a failing space with a log payload
\* followed by a failing Summary record: only the space is listed, without log
C12_Witness ==
    /\ Rendered
    /\ report_part = "compliance"
    /\ Len(report_rows) = 2
    /\ IsSpaceRow(report_rows[1]) /\ LoweredStatus(report_rows[1]) = "fail"
    /\ Truthy(RowGet(report_rows[1], "log"))
    /\ IsSummaryRow(report_rows[2]) /\ LoweredStatus(report_rows[2]) = "fail"
    /\ FlaggedSection = <<"- [FAIL] Living room with open kitchen",
                          "  reasons: Area 3.000 m2 below required 16.000 m2">>

\* the status a record is counted under: lowercased, "unknown" when empty
\* or missing
RecountStatus(row) ==
    IF LoweredStatus(row) = "" THEN "unknown" ELSE LoweredStatus(row)

\* an independent recount: how many of the rows have the status
Recount(rows, status) ==
    Cardinality({k \in 1..Len(rows) : RecountStatus(rows[k]) = status})

RECURSIVE SumOver(_, _)
SumOver(rows, statuses) ==
    IF statuses = << >> THEN 0
    ELSE Recount(rows, Head(statuses)) + SumOver(rows, Tail(statuses))

StatusOrder == IF report_part = "parse" THEN ParseStatusOrder ELSE ComplianceStatusOrder

\* the table expected of the rows counted: one row per status of the fixed
\* list that occurs, in the order of the list
ExpectedTable(counted) ==
    LET shown == SelectSeq(StatusOrder, LAMBDA status : Recount(counted, status) > 0)
    IN  [k \in 1..Len(shown) |-> StatusRow(shown[k], Recount(counted, shown[k]))]

\* C13 as stated: the status table shows one row per status occurring in the
\* sequence with the number of records of the sequence having it, omits the
\* statuses that do not occur, follows the fixed order, and its counts sum
\* to the number of records of the sequence.
C13_TableCountsEveryRecord ==
    Rendered =>
        /\ StatusSection = ExpectedTable(report_rows)
        /\ \A k \in 1..Len(report_rows) :
              RecountStatus(report_rows[k]) \in Range(StatusOrder)
        /\ SumOver(report_rows, StatusOrder) = Len(report_rows)

\* the records a status table counts: all of them in the parse section, the
\* IfcSpace records in the compliance section
CountedRows ==
    IF report_part = "parse" THEN report_rows
    ELSE SelectSeq(report_rows,
             LAMBDA row : RowGet(row, "element_type") = Label("IfcSpace"))

\* C13: the status table of the parse section counts every record of the
\* sequence, that of the compliance section the IfcSpace records only; it
\* shows one row per status of the fixed list (pass, warning, fail, blocked,
\* log, unknown in the parse section; pass, fail, warning, blocked, log,
\* unknown in the compliance section) that occurs among the counted records
\* once lowercased (empty or missing counting as unknown), with the number
\* of counted records having it, omits the others and follows the order of
\* the list; the counts shown sum to the number of counted records whose
\* status is in the list.
C13_TableCountsListedStatuses ==
    Rendered =>
        /\ StatusSection = ExpectedTable(CountedRows)
        /\ SumOver(CountedRows, StatusOrder) =
               Cardinality({k \in 1..Len(CountedRows) :
                               RecountStatus(CountedRows[k]) \in Range(StatusOrder)})

\* the compliance table was built from a passing space and a Summary record:
\* one PASS row counting 1 for a sequence of two records
C13_Witness ==
    /\ Rendered
    /\ report_part = "compliance"
    /\ Len(report_rows) = 2
    /\ IsSpaceRow(report_rows[1]) /\ LoweredStatus(report_rows[1]) = "pass"
    /\ IsSummaryRow(report_rows[2])
    /\ StatusSection = <<"PASS                1">>

(***************************************************************************)
(* check_ifc_parse (src/tools/checker_ifc_parser.py) as a state machine:   *)
(* one step for the schema record, one per requested entity type, one for  *)
(* the overall record.                                                     *)
(***************************************************************************)
\* longest explicit entity type request
MaxTypes == 3
\* largest sample_limit argument
MaxSampleLimit == 2

DEFAULT_ENTITY_TYPES ==
    <<"IfcProject", "IfcSite", "IfcBuilding", "IfcBuildingStorey", "IfcSpace", "IfcWall",
      "IfcSlab", "IfcDoor", "IfcWindow", "IfcColumn", "IfcBeam">>

\* the entity_types argument: None, an object that is not iterable, a list
\* of items, or a str given by its chunks between commas
TypeList(items) == [t |-> "list", items |-> items]
TypeCsv(chunks) == [t |-> "csv", chunks |-> chunks]

\* str.strip, tabulated for the entity type texts of the model
StripText(s) ==
    CASE s = " IfcSpace " -> "IfcSpace"
      [] s = " " -> ""
      [] OTHER -> s

\* [x.strip() for x in items if x.strip()]
StrippedNonEmpty(items) ==
    SelectSeq([k \in 1..Len(items) |-> StripText(items[k])], LAMBDA item : item # "")

\* _normalize_entity_types(entity_types)
_normalize_entity_types(entity_types) ==
    CASE IsNone(entity_types) -> DEFAULT_ENTITY_TYPES
      [] entity_types.t = "csv" ->
            IF StrippedNonEmpty(entity_types.chunks) # << >>
            THEN StrippedNonEmpty(entity_types.chunks) ELSE DEFAULT_ENTITY_TYPES
      [] entity_types.t = "list" ->
            IF StrippedNonEmpty(entity_types.items) # << >>
            THEN StrippedNonEmpty(entity_types.items) ELSE DEFAULT_ENTITY_TYPES
      [] OTHER -> DEFAULT_ENTITY_TYPES

\* max(1, int(sample_limit))
NormalizedSampleLimit(limit) == IF limit > 1 THEN limit ELSE 1

\* an element of the file: its attributes and its express id
IfcElement(id, global_id, name, long_name) ==
    [t |-> "entity", id |-> id, GlobalId |-> global_id, Name |-> name, LongName |-> long_name]

\* a call that returned v
Returned(v) == [t |-> "returned", v |-> v]

\* model.by_type(entity_type): the elements of the type, or the exception of
\* a type the file cannot give (unknown to the schema, or unreadable)
by_type(ifc, entity_type) ==
    IF entity_type \in DOMAIN ifc.failures THEN Raised(ifc.failures[entity_type])
    ELSE IF entity_type \in DOMAIN ifc.elements THEN Returned(ifc.elements[entity_type])
    ELSE IF entity_type \in Range(DEFAULT_ENTITY_TYPES) THEN Returned(<< >>)
    ELSE Raised("Entity with name '" \o entity_type \o "' not found in schema '"
                \o ifc.schema \o "'")

\* lines 97-113: the schema record
SchemaRecord(ifc) ==
    ParserResult(None, Label("Summary"), Label("Model Schema"), None, Label("log"),
                 OrElse(Label(ifc.schema), Label("unknown")),
                 Label("Readable IFC schema"),
                 Label("Parsed model schema successfully"), None)

\* a handler that drops the text of the exception
BlockedRecordWithoutLog(entity_type, exc) ==
    ParserResult(None, Label("Summary"), Label(entity_type \o " Parse"), None,
                 Label("blocked"), Label("0"), Label("Parsable entity type"),
                 Label("Could not parse " \o entity_type), None)

\* lines 121-133: the record of a type whose by_type raised exc
BlockedRecord(entity_type, exc) ==
    ParserResult(None, Label("Summary"), Label(entity_type \o " Parse"), None,
                 Label("blocked"), Label("0"), Label("Parsable entity type"),
                 Label("Could not parse " \o entity_type), Label(exc))

\* lines 139-151: the count record of a type
CountRecord(entity_type, count) ==
    ParserResult(None, Label("Summary"), Label(entity_type \o " Count"), None,
                 Label(IF count > 0 THEN "pass" ELSE "warning"),
                 Label(ToString(count)), Label(">= 1 recommended"),
                 IF count > 0 THEN None ELSE Label("No " \o entity_type \o " elements found"),
                 None)

\* lines 154-173: the row of one sampled element
SampleRow(entity_type, element) ==
    LET global_id == GetAttr(element, "GlobalId", None)
        name == GetAttr(element, "Name", None)
        long_name == GetAttr(element, "LongName", None)
        express_id == IF "id" \in DOMAIN element THEN ToString(element.id) ELSE ""
        shown_id == IF express_id # "" THEN express_id ELSE "unknown"
    IN  ParserResult(IF Truthy(global_id) THEN Label(_to_text(global_id)) ELSE None,
                     Label(entity_type),
                     OrElse(Label(_to_text(name)), Label(entity_type \o " #" \o shown_id)),
                     IF Truthy(long_name) THEN Label(_to_text(long_name)) ELSE None,
                     Label("log"),
                     Label("Parsed " \o entity_type \o " (express_id=" \o shown_id \o ")"),
                     Label("Parsable IFC entity"), None, None)

\* elements[:sample_limit], one row each
SampleRows(entity_type, elements, limit) ==
    LET n == IF Len(elements) < limit THEN Len(elements) ELSE limit
    IN  [k \in 1..n |-> SampleRow(entity_type, elements[k])]

\* lines 175-191: the overall record
OverallRecord(total, types) ==
    ParserResult(None, Label("Summary"), Label("Overall Parse"), None,
                 Label(IF total > 0 THEN "pass" ELSE "warning"),
                 Label(ToString(total) \o " parsed entities across "
                       \o ToString(Len(types)) \o " types"),
                 Label("> 0 parsed entities"),
                 Label(IF total > 0 THEN "Model parsed successfully"
                       ELSE "Model readable but no entities found for configured types"),
                 None)

\* the files: the walls and spaces they hold, and the types they fail on
WallSamples ==
    <<IfcElement(11, Label("2O2Fr$t4X7Zf8NOew3FLOH"), Label("Wall-1"), None),
      IfcElement(12, None, None, None)>>

SpaceSamples == <<IfcElement(21, Label("0BTBFw6f90Nfh9rP1dlXr1"), Label("1"), Label("Bedroom"))>>

IfcFiles ==
    {[schema |-> "IFC4", elements |-> [IfcWall |-> SubSeq(WallSamples, 1, n)], failures |-> f]
        : n \in 0..2,
          f \in {[IfcSpace |-> "Unable to read IfcSpace instances"], << >>}}
    \cup {[schema |-> "IFC4",
           elements |-> [IfcWall |-> SubSeq(WallSamples, 1, n), IfcSpace |-> SpaceSamples],
           failures |-> << >>] : n \in 0..2}

\* the texts of an entity type request
TypeTexts == {"IfcWall", "IfcFoo", " IfcSpace ", ""}

EntityTypeInputs ==
    {None, Obj}
    \cup {TypeList(items) : items \in SeqsUpTo(TypeTexts, MaxTypes)}
    \cup {TypeCsv(chunks) : chunks \in SeqsUpTo(TypeTexts, MaxTypes)}

\* lines 93-95: the arguments are normalized, the list is empty
InitParse ==
    /\ model \in IfcFiles
    /\ entity_type_list \in {_normalize_entity_types(x) : x \in EntityTypeInputs}
    /\ sample_limit \in {NormalizedSampleLimit(n) : n \in 0..MaxSampleLimit}
    /\ parse_pc = "start"
    /\ parse_pos = 0
    /\ parse_results = << >>
    /\ total_count = 0
    /\ ComplianceIdle /\ NormIdle /\ ReportIdle /\ RetryIdle

\* lines 97-115
ParseSchema ==
    /\ parse_pc = "start"
    /\ parse_results' = Append(parse_results, SchemaRecord(model))
    /\ parse_pc' = "loop"
    /\ UNCHANGED <<model, entity_type_list, sample_limit, parse_pos, total_count>>
    /\ UNCHANGED <<complianceVars, normVars, reportVars, retryVars>>

\* lines 117-134: by_type raises, the blocked record is appended, continue
ParseTypeBlocked ==
    /\ parse_pc = "loop"
    /\ parse_pos < Len(entity_type_list)
    /\ LET entity_type == entity_type_list[parse_pos + 1]
           outcome == by_type(model, entity_type)
       IN  /\ IsRaised(outcome)
           /\ parse_results' = Append(parse_results, BlockedRecord(entity_type, outcome.exc))
    /\ parse_pos' = parse_pos + 1
    /\ UNCHANGED <<model, entity_type_list, sample_limit, parse_pc, total_count>>
    /\ UNCHANGED <<complianceVars, normVars, reportVars, retryVars>>

\* lines 117-173: by_type returns, the count record and the sample rows are appended
ParseTypeCounted ==
    /\ parse_pc = "loop"
    /\ parse_pos < Len(entity_type_list)
    /\ LET entity_type == entity_type_list[parse_pos + 1]
           outcome == by_type(model, entity_type)
       IN  /\ ~IsRaised(outcome)
           /\ total_count' = total_count + Len(outcome.v)
           /\ parse_results' =
                  Append(parse_results, CountRecord(entity_type, Len(outcome.v)))
                  \o SampleRows(entity_type, outcome.v, sample_limit)
    /\ parse_pos' = parse_pos + 1
    /\ UNCHANGED <<model, entity_type_list, sample_limit, parse_pc>>
    /\ UNCHANGED <<complianceVars, normVars, reportVars, retryVars>>

\* lines 175-193: the overall record is appended and the list returned
ParseOverall ==
    /\ parse_pc = "loop"
    /\ parse_pos = Len(entity_type_list)
    /\ parse_results' = Append(parse_results, OverallRecord(total_count, entity_type_list))
    /\ parse_pc' = "done"
    /\ UNCHANGED <<model, entity_type_list, sample_limit, parse_pos, total_count>>
    /\ UNCHANGED <<complianceVars, normVars, reportVars, retryVars>>

NextParse == ParseSchema \/ ParseTypeBlocked \/ ParseTypeCounted \/ ParseOverall

SpecParse == InitParse /\ [][NextParse]_vars

\* by_type fails for the entity type on the file being parsed
ByTypeFails(entity_type) == IsRaised(by_type(model, entity_type))

\* the Summary records of the entity types: those after the schema record
\* and, once the function has returned, before the overall record
TypeSummaries ==
    LET last == IF parse_pc = "done" THEN Len(parse_results) - 1 ELSE Len(parse_results)
    IN  SelectSeq(SubSeq(parse_results, 2, last), IsSummaryRow)

BlockedRecords ==
    SelectSeq(parse_results, LAMBDA row : row.check_status = Label("blocked"))

\* C14: a requested type whose by_type fails gets exactly one record, of
\* status "blocked" with the failure text as log, and no sample rows; every
\* requested type consumed so far, in request order, has exactly one Summary
\* record named "<type> Parse" or "<type> Count"; the loop goes on after a
\* failure, and the returned list ends with the "Overall Parse" record.
C14_BlockedTypeDoesNotStopTheParse ==
    /\ parse_pc \in {"idle", "start", "loop", "done"}
    /\ parse_pc \in {"start", "loop"} => ENABLED NextParse
    /\ Len(TypeSummaries) = parse_pos
    /\ \A k \in 1..parse_pos :
          LET entity_type == entity_type_list[k]
              row == TypeSummaries[k]
          IN  IF ByTypeFails(entity_type)
              THEN /\ row.element_name = Label(entity_type \o " Parse")
                   /\ row.check_status = Label("blocked")
                   /\ row.log = Label(by_type(model, entity_type).exc)
                   /\ \A j \in 1..Len(parse_results) :
                         parse_results[j].element_type # Label(entity_type)
              ELSE /\ row.element_name = Label(entity_type \o " Count")
                   /\ row.check_status \in {Label("pass"), Label("warning")}
    /\ Len(BlockedRecords) = Cardinality({k \in 1..parse_pos : ByTypeFails(entity_type_list[k])})
    /\ parse_pc = "done" =>
          /\ parse_pos = Len(entity_type_list)
          /\ parse_results[Len(parse_results)].element_name = Label("Overall Parse")

\* the function has returned for a request whose first type failed and whose
\* second type gave sample rows
C14_Witness ==
    /\ parse_pc = "done"
    /\ entity_type_list = <<"IfcFoo", "IfcWall">>
    /\ parse_results[2].check_status = Label("blocked")
    /\ parse_results[2].log = Label("Entity with name 'IfcFoo' not found in schema 'IFC4'")
    /\ parse_results[3].element_name = Label("IfcWall Count")
    /\ parse_results[4].element_type = Label("IfcWall")
    /\ parse_results[Len(parse_results)].element_name = Label("Overall Parse")

(***************************************************************************)
(* Spaces without a type, in check_barcelona_space_compliance.             *)
(***************************************************************************)
\* the reasons the type check would give for a label without a rule
UnrecognizedReasons ==
    {"Unrecognized space type: " \o SPACE_KEYWORDS[i].space_type : i \in 1..Len(SPACE_KEYWORDS)}

\* C15: a space whose type could not be inferred fails whatever its
\* measurements: both required thresholds stay None, its first reason is
\* "Could not infer space type" and its other reasons are only "not found"
\* ones, never a threshold comparison; and since every label of
\* SPACE_KEYWORDS has a rule in SPACE_RULES, no record carries an
\* "Unrecognized space type" reason.
C15_UntypedSpaceAlwaysFails ==
    /\ \A i \in 1..Len(SPACE_KEYWORDS) : SPACE_KEYWORDS[i].space_type \in DOMAIN SPACE_RULES
    /\ \A k \in Checked :
          LET r == results[k]
              reasons == r.log.reasons
          IN  /\ IsNone(TypeOf(r)) =>
                    /\ r.check_status = "fail"
                    /\ r.log.status = "FAIL"
                    /\ IsNone(r.log.required.min_area_m2)
                    /\ IsNone(r.log.required.min_height_m)
                    /\ reasons[1] = "Could not infer space type"
                    /\ \A j \in 2..Len(reasons) :
                          reasons[j] \in {"Area not found.", "Height not found."}
              /\ \A j \in 1..Len(reasons) : reasons[j] \notin UnrecognizedReasons

\* a space without a type whose area and height are both measured, the area
\* below every rule's minimum, has been checked: its only reason is the type
C15_Witness ==
    \E k \in Checked :
        LET r == results[k]
        IN  /\ IsNone(TypeOf(r))
            /\ ~IsNone(AreaOf(r)) /\ AreaOf(r).v < SPACE_RULES["Bathroom"].min_area
            /\ ~IsNone(HeightOf(r))
            /\ r.check_status = "fail"
            /\ r.log.reasons = <<"Could not infer space type">>

(***************************************************************************)
(* _generate_with_retry (src/gemini_tool_example.py) as a state machine:   *)
(* one step per call of generate_content, by its outcome.                  *)
(***************************************************************************)
\* largest attempts argument
MaxAttempts == 6

\* what generate_content may do: return a response, raise errors.ServerError
\* with a code, or raise another exception
Response == [t |-> "response"]
ServerError(code) == [t |-> "ServerError", code |-> code]
ClientError == [t |-> "ClientError", code |-> 400]
RuntimeError == [t |-> "RuntimeError"]

ServerErrorCodes == {500, 502, 503, 504}

\* is_transient = exc.code == 503
IsTransient(exc) == exc.code = 503

\* a backoff that grows by one second
NextDelayLinear(delay) == delay + 1

\* delay_seconds *= 2
NextDelay(delay) == delay * 2

\* lines 36-37: delay_seconds = 1, the loop starts at attempt 1
InitRetry ==
    /\ attempts \in 0..MaxAttempts
    /\ attempt = 1
    /\ delay_seconds = 1
    /\ calls = << >>
    /\ slept = << >>
    /\ retry_pc = "loop"
    /\ retry_result = None
    /\ ComplianceIdle /\ NormIdle /\ ReportIdle /\ ParseIdle

\* lines 38-43: the call returns and so does the function
CallReturns ==
    /\ retry_pc = "loop"
    /\ attempt <= attempts
    /\ calls' = Append(calls, Response)
    /\ retry_result' = Returned(Response)
    /\ retry_pc' = "returned"
    /\ UNCHANGED <<attempts, attempt, delay_seconds, slept>>
    /\ UNCHANGED <<complianceVars, normVars, reportVars, parseVars>>

\* lines 44-47: a server error that is not transient, or that of the last
\* attempt, is raised again
CallFailsForGood ==
    /\ retry_pc = "loop"
    /\ attempt <= attempts
    /\ \E code \in ServerErrorCodes :
          /\ ~IsTransient(ServerError(code)) \/ attempt = attempts
          /\ calls' = Append(calls, ServerError(code))
          /\ retry_result' = Raised(ServerError(code))
    /\ retry_pc' = "raised"
    /\ UNCHANGED <<attempts, attempt, delay_seconds, slept>>
    /\ UNCHANGED <<complianceVars, normVars, reportVars, parseVars>>

\* lines 44-54: a transient server error before the last attempt: sleep,
\* double the delay, next attempt
CallFailsTransiently ==
    /\ retry_pc = "loop"
    /\ attempt <= attempts
    /\ \E code \in ServerErrorCodes :
          /\ IsTransient(ServerError(code)) /\ attempt # attempts
          /\ calls' = Append(calls, ServerError(code))
    /\ slept' = Append(slept, delay_seconds)
    /\ delay_seconds' = NextDelay(delay_seconds)
    /\ attempt' = attempt + 1
    /\ UNCHANGED <<attempts, retry_pc, retry_result>>
    /\ UNCHANGED <<complianceVars, normVars, reportVars, parseVars>>

\* an exception that is not a ServerError is not caught
CallFailsOtherwise ==
    /\ retry_pc = "loop"
    /\ attempt <= attempts
    /\ calls' = Append(calls, ClientError)
    /\ retry_result' = Raised(ClientError)
    /\ retry_pc' = "raised"
    /\ UNCHANGED <<attempts, attempt, delay_seconds, slept>>
    /\ UNCHANGED <<complianceVars, normVars, reportVars, parseVars>>

\* line 56: the loop ends without a call having returned or raised
LoopExhausted ==
    /\ retry_pc = "loop"
    /\ attempt > attempts
    /\ retry_result' = Raised(RuntimeError)
    /\ retry_pc' = "raised"
    /\ UNCHANGED <<attempts, attempt, delay_seconds, calls, slept>>
    /\ UNCHANGED <<complianceVars, normVars, reportVars, parseVars>>

NextRetry ==
    \/ CallReturns
    \/ CallFailsForGood
    \/ CallFailsTransiently
    \/ CallFailsOtherwise
    \/ LoopExhausted

\* generate_content returns or raises, time.sleep returns: the function
\* always takes its next step
SpecRetry == InitRetry /\ [][NextRetry]_vars /\ WF_vars(NextRetry)

RetryFinished == retry_pc \in {"returned", "raised"}

\* what holds of the calls and sleeps in every state of a run
RetryCallsInOrder ==
    /\ Len(calls) <= attempts
    \* a call is followed by another one only if it raised a 503
    /\ \A k \in 1..(Len(calls) - 1) : calls[k] = ServerError(503)
    \* one sleep per retry, the k-th of 2^(k-1) seconds
    /\ slept = [k \in 1..Len(slept) |-> 2 ^ (k - 1)]
    /\ retry_pc = "loop" =>
          /\ Len(slept) = Len(calls)
          /\ \A k \in 1..Len(calls) : calls[k] = ServerError(503)
    /\ retry_pc = "returned" =>
          /\ calls # << >>
          /\ calls[Len(calls)] = Response
          /\ retry_result = Returned(Response)
          /\ Len(slept) = Len(calls) - 1
    /\ (retry_pc = "raised" /\ calls # << >>) =>
          /\ calls[Len(calls)] # Response
          /\ retry_result = Raised(calls[Len(calls)])
          /\ Len(slept) = Len(calls) - 1
          /\ calls[Len(calls)] = ServerError(503) => Len(calls) = attempts
    /\ (retry_pc = "raised" /\ calls = << >>) =>
          /\ attempts = 0
          /\ retry_result = Raised(RuntimeError)

\* C16: _generate_with_retry terminates, after at most attempts calls: it
\* returns the first response without calling again, raises a server error
\* that is not a 503 at once without sleeping, calls again after a sleep only
\* after a 503 that was not the last attempt, raises the 503 of the last
\* attempt, and sleeps 2^(k-1) seconds before the k-th retry.
C16_RetryTerminatesWithBackoff ==
    /\ [] RetryCallsInOrder
    /\ <> RetryFinished

\* three attempts all answered by a 503: two sleeps of 1 and 2 seconds, then
\* the third 503 is raised
C16_Witness ==
    /\ attempts = 3
    /\ calls = <<ServerError(503), ServerError(503), ServerError(503)>>
    /\ slept = <<1, 2>>
    /\ retry_pc = "raised"
    /\ retry_result = Raised(ServerError(503))
====
